---- MODULE Spec2Model ----
(***************************************************************************)
(* Model of the admin-management server (src/index.js): the report         *)
(* lifecycle handlers, the user-profile handlers, the authorization gates  *)
(* and the stores they act on (the userReports and users collections and   *)
(* the identity provider's custom-claim store).                            *)
(*                                                                         *)
(* Every handler is cut at its awaits: one action per store or provider    *)
(* call, the synchronous code around the call belonging to the action.     *)
(* A request occupies a slot p; pc[p] is its position in the handler,      *)
(* req[p] its inputs, loc[p] its local variables, resp[p] its response.    *)
(***************************************************************************)
EXTENDS Integers, Sequences, FiniteSets, TLC

\* ------------------------------------------------------------------ bounds
MaxReports == 2
MaxTime == 1
MaxBulk == 2

\* request slots: every slot may run a request; SeqProcs alone gives the
\* one-request-at-a-time executions
Procs == {1, 2}
SeqProcs == {1}

\* ------------------------------------------------------------ value spaces
Roles == {"user", "admin", "superadmin"}
NoRole == "none"
Uids == {"u1", "u2", "u3", "a1", "s1"}

\* an id that ObjectId.isValid rejects; the well-formed ids are 1, 2, ...
BadId == 0
ReqIds == 0..MaxReports

VARIABLES
    reports,      \* userReports collection: _id -> document
    nextId,       \* the next ObjectId insertOne generates for a report
    users,        \* users collection: documents in natural (insertion) order
    idpClaims,    \* identity provider: uid -> role custom claim (or NoRole)
    idpAccounts,  \* identity provider: uids that have an account
    tokens,       \* decoded contents of the ID tokens issued so far
    now,          \* the clock read by new Date()
    pc, req, loc, resp,
    trashedFrom,  \* history: _id -> the document as it was when it was trashed
    client,       \* the MongoClient held by the module variable (0: undefined)
    db,           \* the MongoClient whose db handle the module variable holds
    clients,      \* the MongoClients created so far
    connected,    \* the MongoClients with a live connection
    indexRuns     \* how often the createIndex calls have run

connVars == <<client, db, clients, connected, indexRuns>>
vars == <<reports, nextId, users, idpClaims, idpAccounts, tokens, now,
          pc, req, loc, resp, trashedFrom, connVars>>
storeVars == <<reports, nextId, users, idpClaims, idpAccounts, tokens, trashedFrom>>
\* what the report handlers leave alone
userVars == <<users, idpClaims, idpAccounts, tokens>>

\* ------------------------------------------------- document-store operators
\* { field: { $exists: true } }
Exists(doc, field) == field \in DOMAIN doc

\* $set: the given fields are written over the document
DocSet(doc, fields) ==
    [f \in (DOMAIN doc) \cup (DOMAIN fields) |->
        IF f \in DOMAIN fields THEN fields[f] ELSE doc[f]]

\* $unset: the named fields are removed from the document
DocUnset(doc, names) == [f \in (DOMAIN doc) \ names |-> doc[f]]

Range(seq) == {seq[i] : i \in DOMAIN seq}

\* ObjectId.isValid(id)
ObjectIdIsValid(id) == id >= 1

\* usersCollection.findOne({ uid }): <<>> or <<the first matching document>>
FindUser(uid) ==
    LET hits == SelectSeq(users, LAMBDA d : d.uid = uid)
    IN  IF Len(hits) = 0 THEN <<>> ELSE <<Head(hits)>>

\* userReportsCollection.findOne({ _id }): <<>> or <<the document>>
FindReport(id) == IF id \in DOMAIN reports THEN <<reports[id]>> ELSE <<>>

\* deleteOne / deleteMany of the matched ids
RemoveIds(ids) == [i \in (DOMAIN reports) \ ids |-> reports[i]]

MatchIdsNotTrashed(ids) ==
    {i \in DOMAIN reports : i \in ids /\ ~Exists(reports[i], "deletedAt")}

\* the ids that the query { _id: { $in: ids } } matches
MatchIds(ids) == {i \in DOMAIN reports : i \in ids}

MatchTrashedIdsAnyStage(ids) == {i \in DOMAIN reports : i \in ids}

\* the ids that { _id: { $in: ids }, deletedAt: { $exists: true } } matches
MatchTrashedIds(ids) == {i \in DOMAIN reports : i \in ids /\ Exists(reports[i], "deletedAt")}

\* ------------------------------------------------------------- responses
Response(status, message) == [status |-> status, message |-> message]
NoResp == Response(0, "")
NoLoc == [none |-> TRUE]
NoReq == [op |-> "none"]

\* slot p is free for the next request
Free(p) == pc[p] = "idle"

\* the request in slot p ends with response r
Finish(p, r) ==
    /\ pc' = [pc EXCEPT ![p] = "done"]
    /\ resp' = [resp EXCEPT ![p] = r]
    /\ loc' = [loc EXCEPT ![p] = NoLoc]
    /\ UNCHANGED connVars

\* the response of slot p has been sent: the slot is free again
Reply(p) ==
    /\ pc[p] = "done"
    /\ pc' = [pc EXCEPT ![p] = "idle"]
    /\ req' = [req EXCEPT ![p] = NoReq]
    /\ resp' = [resp EXCEPT ![p] = NoResp]
    /\ UNCHANGED <<storeVars, now, loc, connVars>>

\* the request in slot p goes on to step label with locals l
Goto(p, label, l) ==
    /\ pc' = [pc EXCEPT ![p] = label]
    /\ resp' = [resp EXCEPT ![p] = NoResp]
    /\ loc' = [loc EXCEPT ![p] = l]
    /\ UNCHANGED connVars

\* ------------------------------------------------------------ credentials
\* what admin.auth().verifyIdToken makes of the Authorization header
Token(kind, uid, role) == [kind |-> kind, uid |-> uid, role |-> role]
NoToken == Token("missing", "", NoRole)
ExpiredToken == Token("expired", "", NoRole)
MalformedToken == Token("malformed", "", NoRole)
RejectedToken == Token("rejected", "", NoRole)
Credentials == tokens \cup {NoToken, ExpiredToken, MalformedToken, RejectedToken}

TokenErrorMessage(tok) ==
    IF tok.kind = "expired"
    THEN "Unauthorized: Authentication token expired. Please log in again."
    ELSE IF tok.kind = "malformed"
    THEN "Unauthorized: Invalid authentication token."
    ELSE "Unauthorized: Invalid or expired token."

\* verifyAuthToken: identity only. ok, or the 401 response
verifyAuthTokenUnchecked(tok) == [ok |-> TRUE, resp |-> NoResp]
verifyAuthToken(tok) ==
    IF tok.kind = "missing"
    THEN [ok |-> FALSE,
          resp |-> Response(401, "Unauthorized: No authentication token provided.")]
    ELSE IF tok.kind # "valid"
    THEN [ok |-> FALSE, resp |-> Response(401, TokenErrorMessage(tok))]
    ELSE [ok |-> TRUE, resp |-> NoResp]

\* the fast path of verifyAdminToken: the role claim of the token is trusted
ClaimIsAdminNever(tok) == FALSE
ClaimIsAdmin(tok) == tok.role = "admin" \/ tok.role = "superadmin"

\* the slow path's test on the stored profile
StoredIsAdminAny(profile) == TRUE
StoredIsAdmin(profile) == profile.role = "admin" \/ profile.role = "superadmin"

\* verifyAdminToken: ok with req.userProfile (uid and role of it are all the
\* handlers read), or the 401/403 response
verifyAdminToken(tok) ==
    IF tok.kind = "missing"
    THEN [ok |-> FALSE, uid |-> "", role |-> NoRole,
          resp |-> Response(401, "Unauthorized: No authentication token provided.")]
    ELSE IF tok.kind # "valid"
    THEN [ok |-> FALSE, uid |-> "", role |-> NoRole,
          resp |-> Response(401, TokenErrorMessage(tok))]
    ELSE IF ClaimIsAdmin(tok)
    THEN [ok |-> TRUE, uid |-> tok.uid, role |-> tok.role, resp |-> NoResp]
    ELSE LET found == FindUser(tok.uid)
         IN  IF Len(found) = 0
             THEN [ok |-> FALSE, uid |-> "", role |-> NoRole,
                   resp |-> Response(403, "Access denied: User profile not found in database.")]
             ELSE IF ~StoredIsAdmin(found[1])
             THEN [ok |-> FALSE, uid |-> "", role |-> NoRole,
                   resp |-> Response(403, "Access denied: Insufficient privileges. Requires admin role.")]
             ELSE [ok |-> TRUE, uid |-> found[1].uid, role |-> found[1].role,
                   resp |-> NoResp]

\* the handlers' own test on req.userProfile.role
IsAdminRole(role) == role = "admin" \/ role = "superadmin"

\* ------------------------------------------------------------------ text
\* the characters of the strings that occur in requests
Chars(s) ==
    CASE s = "" -> <<>>
      [] s = "A" -> <<"A">>
      [] s = "B" -> <<"B">>
      [] s = "r" -> <<"r">>
      [] s = "a" -> <<"a">>
      [] s = "5" -> <<"5">>
      [] s = "x.c" -> <<"x", ".", "c">>
      [] s = "+1 555-1234" -> <<"+", "1", " ", "5", "5", "5", "-", "1", "2", "3", "4">>
      [] s = "(555) 12" -> <<"(", "5", "5", "5", ")", " ", "1", "2">>
      [] s = "555x" -> <<"5", "5", "5", "x">>
      [] s = "1+2" -> <<"1", "+", "2">>
      [] s = "http://x.com/a" ->
            <<"h", "t", "t", "p", ":", "/", "/", "x", ".", "c", "o", "m", "/", "a">>
      [] s = "WWW.abc.io" -> <<"W", "W", "W", ".", "a", "b", "c", ".", "i", "o">>
      [] s = "https://www.a" ->
            <<"h", "t", "t", "p", "s", ":", "/", "/", "w", "w", "w", ".", "a">>
      [] s = "x y.com" -> <<"x", " ", "y", ".", "c", "o", "m">>
      [] s = "nodot" -> <<"n", "o", "d", "o", "t">>
      [] s = "0" -> <<"0">>
      [] s = "1" -> <<"1">>
      [] s = "2" -> <<"2">>
      [] s = "-1" -> <<"-", "1">>
      [] s = "b" -> <<"b">>
      [] s = "." -> <<".">>
      [] s = "(" -> <<"(">>
      [] s = "S" -> <<"S">>
      [] s = "U" -> <<"U">>
      [] s = "V" -> <<"V">>
      [] s = "N" -> <<"N">>
      [] s = "e1" -> <<"e", "1">>
      [] s = "e2" -> <<"e", "2">>
      [] s = "s1@x" -> <<"s", "1", "@", "x">>
      [] s = "a1@x" -> <<"a", "1", "@", "x">>
      [] s = "u1@x" -> <<"u", "1", "@", "x">>
      [] s = "u2@x" -> <<"u", "2", "@", "x">>

Digit == {"0", "1", "2", "3", "4", "5", "6", "7", "8", "9"}
LowerLetter == {"a", "b", "c", "d", "e", "f", "g", "h", "i", "j", "k", "l", "m",
                "n", "o", "p", "q", "r", "s", "t", "u", "v", "w", "x", "y", "z"}
UpperToLower ==
    [A |-> "a", B |-> "b", C |-> "c", D |-> "d", E |-> "e", F |-> "f", G |-> "g",
     H |-> "h", I |-> "i", J |-> "j", K |-> "k", L |-> "l", M |-> "m", N |-> "n",
     O |-> "o", P |-> "p", Q |-> "q", R |-> "r", S |-> "s", T |-> "t", U |-> "u",
     V |-> "v", W |-> "w", X |-> "x", Y |-> "y", Z |-> "z"]
\* case folding of the 'i' flag
Lower(c) == IF c \in DOMAIN UpperToLower THEN UpperToLower[c] ELSE c
Alnum(c) == Lower(c) \in LowerLetter \cup Digit
WhiteSpace == {" "}

\* /^[+]?[0-9\s()-]*$/
phoneRegexTest(s) ==
    LET body == IF Len(s) > 0 /\ s[1] = "+" THEN Tail(s) ELSE s
    IN  \A i \in 1..Len(body) : body[i] \in Digit \cup WhiteSpace \cup {"(", ")", "-"}

\* s continues at position at with the literal lit (case-insensitively)
LiteralAt(s, lit, at) ==
    /\ at + Len(lit) - 1 <= Len(s)
    /\ \A i \in 1..Len(lit) : Lower(s[at + i - 1]) = lit[i]

\* https?:\/\/ : the positions right after the scheme
SchemeEnds(s) ==
    {k \in 1..(Len(s) + 1) :
        \/ k = 8 /\ LiteralAt(s, <<"h", "t", "t", "p", ":", "/", "/">>, 1)
        \/ k = 9 /\ LiteralAt(s, <<"h", "t", "t", "p", "s", ":", "/", "/">>, 1)}

\* [^\s]{2,}$ from position k
NonSpaceRest(s, k) ==
    /\ Len(s) - k + 1 >= 2
    /\ \A i \in k..Len(s) : s[i] \notin WhiteSpace

\* [a-zA-Z0-9]+\.[^\s]{2,}$ from position k
ShortHostAt(s, k) ==
    \E d \in (k + 1)..Len(s) :
        /\ \A i \in k..(d - 1) : Alnum(s[i])
        /\ s[d] = "."
        /\ NonSpaceRest(s, d + 1)

\* [a-zA-Z0-9][a-zA-Z0-9-]+[a-zA-Z0-9]\.[^\s]{2,}$ from position k
LongHostAt(s, k) ==
    \E d \in (k + 3)..Len(s) :
        /\ Alnum(s[k])
        /\ \A i \in (k + 1)..(d - 2) : Alnum(s[i]) \/ s[i] = "-"
        /\ Alnum(s[d - 1])
        /\ s[d] = "."
        /\ NonSpaceRest(s, d + 1)

\* the four alternatives of urlRegex
urlRegexTest(s) ==
    \/ \E k \in SchemeEnds(s) :
          \/ LiteralAt(s, <<"w", "w", "w", ".">>, k) /\ LongHostAt(s, k + 4)
          \/ ~LiteralAt(s, <<"w", "w", "w">>, k) /\ LongHostAt(s, k)
    \/ LiteralAt(s, <<"w", "w", "w", ".">>, 1) /\ LongHostAt(s, 5)
    \/ \E k \in SchemeEnds(s) : ShortHostAt(s, k)
    \/ ShortHostAt(s, 1)

\* ------------------------------------------------------- POST /api/userReports
Body(name, link, phone, status, reason, reporterId, reporterName) ==
    [name |-> name, facebookLink |-> link, phone |-> phone, status |-> status,
     reason |-> reason, reporterId |-> reporterId, reporterName |-> reporterName]

BodyA == Body("A", "http://x.com/a", "+1 555-1234", "banned", "r", "u1", "B")
BodyB == Body("B", "WWW.abc.io", "(555) 12", "suspended", "r", "a1", "B")
SubmitBodies ==
    {BodyA, BodyB,
     [BodyA EXCEPT !.name = ""], [BodyA EXCEPT !.reporterId = ""],
     [BodyA EXCEPT !.phone = "555x"], [BodyA EXCEPT !.phone = "1+2"],
     [BodyA EXCEPT !.facebookLink = "nodot"],
     [BodyA EXCEPT !.facebookLink = "x y.com"],
     [BodyA EXCEPT !.facebookLink = "https://www.a"],
     [BodyA EXCEPT !.status = "approved"]}

allowedStatuses == {"suspended", "banned"}

\* the validation of the request body: the 400 response, or NoResp
SubmitValidation(b) ==
    IF \E f \in DOMAIN b : b[f] = ""
    THEN Response(400, "All required fields (name, facebookLink, phone, status, reason, reporterId, reporterName) are required.")
    ELSE IF ~phoneRegexTest(Chars(b.phone))
    THEN Response(400, "Invalid phone number format. Please use only digits, +, -, (, ) or spaces.")
    ELSE IF ~urlRegexTest(Chars(b.facebookLink))
    THEN Response(400, "Invalid Facebook link format. Must be a valid URL.")
    ELSE IF b.status \notin allowedStatuses
    THEN Response(400, "Invalid status provided.")
    ELSE NoResp

\* dataToSave
NewReport(b) == DocSet(b, [timestamp |-> now])

\* whether the handler gets to insertOne(dataToSave): every validation
\* returns before it
ReachesInsertAlways(b) == TRUE
ReachesInsert(b) == SubmitValidation(b) = NoResp

Submit(p) ==
    /\ Free(p)
    /\ nextId <= MaxReports
    /\ \E b \in SubmitBodies :
        /\ req' = [req EXCEPT ![p] = [op |-> "submit", body |-> b, id |-> nextId]]
        /\ IF ReachesInsert(b)
           THEN /\ reports' = [i \in (DOMAIN reports) \cup {nextId} |->
                                  IF i = nextId THEN NewReport(b) ELSE reports[i]]
                /\ nextId' = nextId + 1
           ELSE UNCHANGED <<reports, nextId>>
        /\ IF SubmitValidation(b) # NoResp
           THEN Finish(p, SubmitValidation(b))
           ELSE Finish(p, Response(201, "User report submitted successfully!"))
    /\ UNCHANGED <<userVars, now, trashedFrom>>

\* -------------------------------------------- DELETE /api/userReports/:id
MayTrashAnyRole(found) == Len(found) > 0

\* the test on the caller's stored profile
MayTrash(found) == Len(found) > 0 /\ found[1].role = "user"

IsReporterAnyone(report, uid) == TRUE

\* the test on the report's reporterId
IsReporter(report, uid) == report.reporterId = uid

\* the $set of the soft delete
TrashSet(uid) == [deletedAt |-> now, deletedBy |-> uid]

\* verifyAuthToken, the profile lookup, the role check and the id check
TrashProfile(p) ==
    /\ Free(p)
    /\ \E tok \in Credentials :
        IF ~verifyAuthToken(tok).ok
        THEN /\ req' = [req EXCEPT ![p] = [op |-> "trash", tok |-> tok]]
             /\ Finish(p, verifyAuthToken(tok).resp)
        ELSE IF ~MayTrash(FindUser(tok.uid))
        THEN /\ req' = [req EXCEPT ![p] = [op |-> "trash", tok |-> tok]]
             /\ Finish(p, Response(403, "Access denied: Only regular users can move reports to trash."))
        ELSE \E id \in ReqIds :
             /\ req' = [req EXCEPT ![p] = [op |-> "trash", tok |-> tok, id |-> id]]
             /\ IF ~ObjectIdIsValid(id)
                THEN Finish(p, Response(400, "Invalid ID format."))
                ELSE Goto(p, "trash_find", [uid |-> tok.uid])
    /\ UNCHANGED <<storeVars, now>>

\* findOne of the report and the ownership check
TrashFind(p) ==
    /\ pc[p] = "trash_find"
    /\ LET found == FindReport(req[p].id)
       IN  IF Len(found) = 0
           THEN Finish(p, Response(404, "User report not found."))
           ELSE IF ~IsReporter(found[1], loc[p].uid)
           THEN Finish(p, Response(403, "Access denied: You can only move your own reports to trash."))
           ELSE Goto(p, "trash_update", loc[p])
    /\ UNCHANGED <<storeVars, now, req>>

\* the response chosen from result.matchedCount and result.modifiedCount
TrashResponse(matchedCount, modifiedCount) ==
    IF matchedCount = 0
    THEN Response(404, "User report not found or already trashed.")
    ELSE IF modifiedCount = 0
    THEN Response(200, "User report was already in trash.")
    ELSE Response(200, "User report moved to trash successfully.")

\* the collection after updateOne({ _id }, { $set: { deletedAt, deletedBy } })
\* on the matched ids (the earliest version of the handler called deleteOne)
TrashWriteDeleteOne(hit, uid) == RemoveIds(hit)
TrashWrite(hit, uid) ==
    [i \in DOMAIN reports |->
        IF i \in hit THEN DocSet(reports[i], TrashSet(uid)) ELSE reports[i]]

\* the updateOne of the handler and the response
TrashUpdate(p) ==
    /\ pc[p] = "trash_update"
    /\ LET id == req[p].id
           hit == MatchIds({id})
           after == TrashWrite(hit, loc[p].uid)
           modified == {i \in hit : i \notin DOMAIN after \/ after[i] # reports[i]}
       IN  /\ reports' = after
           /\ trashedFrom' =
                 [i \in (DOMAIN trashedFrom) \cup {j \in hit : ~Exists(reports[j], "deletedAt")} |->
                     IF i \in hit /\ ~Exists(reports[i], "deletedAt")
                     THEN reports[i] ELSE trashedFrom[i]]
           /\ Finish(p, TrashResponse(Cardinality(hit), Cardinality(modified)))
    /\ UNCHANGED <<nextId, userVars, now, req>>

\* ------------------------------------------------- the admin middleware
\* verifyAdminToken in front of the handler of route op: the request is
\* answered 401/403, or goes on to the handler with req.userProfile
AdminGate(p, op, next) ==
    /\ Free(p)
    /\ \E tok \in Credentials :
        /\ req' = [req EXCEPT ![p] = [op |-> op, tok |-> tok]]
        /\ LET gate == verifyAdminToken(tok)
           IN  IF ~gate.ok
               THEN Finish(p, gate.resp)
               ELSE Goto(p, next, [uid |-> gate.uid, role |-> gate.role])
    /\ UNCHANGED <<storeVars, now>>

\* verifyAdminToken when the store is down: the slow path's findOne throws
\* inside the try block and the catch answers 401 (a store error has none of
\* the two token error codes, so the general message is sent)
verifyAdminTokenStoreDown(tok) ==
    IF tok.kind = "missing"
    THEN [ok |-> FALSE, uid |-> "", role |-> NoRole, storeError |-> FALSE,
          resp |-> Response(401, "Unauthorized: No authentication token provided.")]
    ELSE IF tok.kind # "valid"
    THEN [ok |-> FALSE, uid |-> "", role |-> NoRole, storeError |-> FALSE,
          resp |-> Response(401, TokenErrorMessage(tok))]
    ELSE IF ClaimIsAdmin(tok)
    THEN [ok |-> TRUE, uid |-> tok.uid, role |-> tok.role, storeError |-> FALSE,
          resp |-> NoResp]
    ELSE [ok |-> FALSE, uid |-> "", role |-> NoRole, storeError |-> TRUE,
          resp |-> Response(401, "Unauthorized: Invalid or expired token.")]

\* a request passes through verifyAdminToken while the store is down;
\* storeError records that a store operation of the request has failed
AdminGateStoreDown(p, op, next) ==
    /\ Free(p)
    /\ \E tok \in Credentials :
        LET gate == verifyAdminTokenStoreDown(tok)
        IN  /\ req' = [req EXCEPT ![p] = [op |-> op, tok |-> tok,
                                          storeError |-> gate.storeError]]
            /\ IF ~gate.ok
               THEN Finish(p, gate.resp)
               ELSE Goto(p, next, [uid |-> gate.uid, role |-> gate.role])
    /\ UNCHANGED <<storeVars, now>>

\* req.params.id is read by the handler
ReadId(p, id) == req' = [req EXCEPT ![p] = DocSet(req[p], [id |-> id])]

\* --------------------------------------- DELETE /api/admin/userReports/:id
AdminDeleteGate(p) == AdminGate(p, "adminDelete", "adminDelete_find")

\* the role check, the id check and findOne({ _id })
AdminDeleteFind(p) ==
    /\ pc[p] = "adminDelete_find"
    /\ IF ~IsAdminRole(loc[p].role)
       THEN /\ Finish(p, Response(403, "Access denied: Only administrators can permanently delete reports."))
            /\ UNCHANGED req
       ELSE \E id \in ReqIds :
            /\ ReadId(p, id)
            /\ IF ~ObjectIdIsValid(id)
               THEN Finish(p, Response(400, "Invalid ID format."))
               ELSE IF Len(FindReport(id)) = 0
               THEN Finish(p, Response(404, "Report not found."))
               ELSE Goto(p, "adminDelete_delete", loc[p])
    /\ UNCHANGED <<storeVars, now>>

\* deleteOne({ _id })
AdminDeleteDelete(p) ==
    /\ pc[p] = "adminDelete_delete"
    /\ LET hit == MatchIds({req[p].id})
       IN  /\ reports' = RemoveIds(hit)
           /\ IF Cardinality(hit) = 1
              THEN Finish(p, Response(200, "Report permanently deleted successfully."))
              ELSE Finish(p, Response(404, "Report not found or already deleted."))
    /\ UNCHANGED <<nextId, userVars, now, req, trashedFrom>>

\* ------------------------------------ PATCH /api/trashedReports/:id/restore
RestoreUnsetDateOnly == {"deletedAt"}

\* the $unset of the restore
RestoreUnset == {"deletedAt", "deletedBy"}

\* updateOne / updateMany(query, { $unset }) on the matched ids
RestoreIds(hit) ==
    [i \in DOMAIN reports |->
        IF i \in hit THEN DocUnset(reports[i], RestoreUnset) ELSE reports[i]]

RestoreResponseNoMatchOk(matchedCount, modifiedCount) ==
    IF matchedCount = 0 \/ modifiedCount = 0
    THEN Response(200, "Report was already restored or no changes made.")
    ELSE Response(200, "Report restored successfully.")

\* the response chosen from result.matchedCount and result.modifiedCount
RestoreResponse(matchedCount, modifiedCount) ==
    IF matchedCount = 0
    THEN Response(404, "Trashed report not found or already restored.")
    ELSE IF modifiedCount = 0
    THEN Response(200, "Report was already restored or no changes made.")
    ELSE Response(200, "Report restored successfully.")

RestoreGate(p) == AdminGate(p, "restore", "restore_update")

\* the role check, the id check and updateOne
RestoreUpdate(p) ==
    /\ pc[p] = "restore_update"
    /\ IF ~IsAdminRole(loc[p].role)
       THEN /\ Finish(p, Response(403, "Access denied: Only admins can restore reports."))
            /\ UNCHANGED <<req, reports>>
       ELSE \E id \in ReqIds :
            /\ ReadId(p, id)
            /\ IF ~ObjectIdIsValid(id)
               THEN /\ Finish(p, Response(400, "Invalid ID format."))
                    /\ UNCHANGED reports
               ELSE LET hit == MatchTrashedIds({id})
                        after == RestoreIds(hit)
                        modified == {i \in hit : after[i] # reports[i]}
                    IN  /\ reports' = after
                        /\ Finish(p, RestoreResponse(Cardinality(hit), Cardinality(modified)))
    /\ UNCHANGED <<nextId, userVars, now, trashedFrom>>

\* the same request while the store is down: the gate, and the handler whose
\* updateOne throws into the catch block of the handler
RestoreGateStoreDown(p) == AdminGateStoreDown(p, "restore", "restore_update")

RestoreUpdateStoreDown(p) ==
    /\ pc[p] = "restore_update"
    /\ IF ~IsAdminRole(loc[p].role)
       THEN /\ Finish(p, Response(403, "Access denied: Only admins can restore reports."))
            /\ UNCHANGED req
       ELSE \E id \in ReqIds :
            IF ~ObjectIdIsValid(id)
            THEN /\ ReadId(p, id)
                 /\ Finish(p, Response(400, "Invalid ID format."))
            ELSE /\ req' = [req EXCEPT ![p] = DocSet(req[p], [id |-> id, storeError |-> TRUE])]
                 /\ Finish(p, Response(500, "Server error while restoring trashed report."))
    /\ UNCHANGED <<storeVars, now>>

\* --------------------------------- DELETE /api/trashedReports/:id/permanent
PurgeGate(p) == AdminGate(p, "purge", "purge_delete")

\* the role check, the id check and deleteOne
PurgeDelete(p) ==
    /\ pc[p] = "purge_delete"
    /\ IF ~IsAdminRole(loc[p].role)
       THEN /\ Finish(p, Response(403, "Access denied: Only admins can permanently delete reports."))
            /\ UNCHANGED <<req, reports>>
       ELSE \E id \in ReqIds :
            /\ ReadId(p, id)
            /\ IF ~ObjectIdIsValid(id)
               THEN /\ Finish(p, Response(400, "Invalid ID format."))
                    /\ UNCHANGED reports
               ELSE LET hit == MatchTrashedIds({id})
                    IN  /\ reports' = RemoveIds(hit)
                        /\ IF Cardinality(hit) = 1
                           THEN Finish(p, Response(200, "Report permanently deleted from trash."))
                           ELSE Finish(p, Response(404, "Trashed report not found."))
    /\ UNCHANGED <<nextId, userVars, now, trashedFrom>>

\* ------------------------------------ POST /api/trashedReports/bulk-action
\* request bodies: ids is an array of at most MaxBulk ids (listed in
\* ascending order), or not an array at all
BulkIdArrays ==
    {a \in UNION {[1..n -> ReqIds] : n \in 0..MaxBulk} :
        \A i \in 1..(Len(a) - 1) : a[i] <= a[i + 1]}
BulkIds == {[isArray |-> TRUE, items |-> a] : a \in BulkIdArrays}
              \cup {[isArray |-> FALSE, items |-> <<>>]}
BulkActions == {"restore", "permanent_delete", "archive"}

ValidObjectIdsKeepAll(items) == items

\* ids.map(...).filter(id => id !== null)
ValidObjectIds(items) == SelectSeq(items, ObjectIdIsValid)

BulkGate(p) == AdminGate(p, "bulk", "bulk_apply")

\* the role check, the validation of the body, and updateMany / deleteMany on
\* { _id: { $in: objectIds }, deletedAt: { $exists: true } }
BulkApply(p) ==
    /\ pc[p] = "bulk_apply"
    /\ IF ~IsAdminRole(loc[p].role)
       THEN /\ Finish(p, Response(403, "Access denied: Only admins can perform bulk actions on reports."))
            /\ UNCHANGED <<req, reports>>
       ELSE \E ids \in BulkIds :
            IF ~ids.isArray \/ Len(ids.items) = 0
            THEN /\ req' = [req EXCEPT ![p] = DocSet(req[p], [ids |-> ids])]
                 /\ Finish(p, Response(400, "Invalid or empty array of IDs provided."))
                 /\ UNCHANGED reports
            ELSE \E action \in BulkActions :
                 /\ req' = [req EXCEPT ![p] =
                               DocSet(req[p], [ids |-> ids, action |-> action])]
                 /\ IF action \notin {"restore", "permanent_delete"}
                    THEN /\ Finish(p, Response(400, "Invalid action specified. Must be \"restore\" or \"permanent_delete\"."))
                         /\ UNCHANGED reports
                    ELSE IF Len(ValidObjectIds(ids.items)) = 0
                    THEN /\ Finish(p, Response(400, "No valid IDs found in the request for bulk action."))
                         /\ UNCHANGED reports
                    ELSE LET hit == MatchTrashedIds(Range(ValidObjectIds(ids.items)))
                             after == RestoreIds(hit)
                             modifiedCount == Cardinality({i \in hit : after[i] # reports[i]})
                         IN  IF action = "restore"
                             THEN /\ reports' = after
                                  /\ Finish(p, [status |-> 200,
                                                message |-> "reports restored successfully.",
                                                count |-> modifiedCount])
                             ELSE /\ reports' = RemoveIds(hit)
                                  /\ Finish(p, [status |-> 200,
                                                message |-> "reports permanently deleted.",
                                                count |-> Cardinality(hit)])
    /\ UNCHANGED <<nextId, userVars, now, trashedFrom>>

\* ------------------------------------------------------- POST /api/users
\* a document of the users collection
Profile(uid, email, fbName, status, role, date) ==
    [uid |-> uid, email |-> email, fbName |-> fbName, status |-> status,
     role |-> role, registrationDate |-> date]

RegisterBody(uid, email, fbName) == [uid |-> uid, email |-> email, fbName |-> fbName]
RegisterBodies ==
    {RegisterBody(u, e, "N") : u \in {"u1", "u3"}, e \in {"e1", "e2"}}
        \cup {RegisterBody("u3", "", "N"), RegisterBody("", "e1", "N")}
        \cup {DocSet(RegisterBody("u3", "e1", "N"),
                      [status |-> "approved", role |-> "superadmin"])}

\* newUserProfile: uid, email and fbName of the body, the rest fixed
newUserProfileFromBody(b) ==
    Profile(b.uid, b.email, b.fbName,
            IF "status" \in DOMAIN b THEN b.status ELSE "pending",
            IF "role" \in DOMAIN b THEN b.role ELSE "user", now)
newUserProfile(b) == Profile(b.uid, b.email, b.fbName, "pending", "user", now)

\* the unique index on uid: whether insertOne(doc) fails with a duplicate key
DuplicateKey(doc) == \E i \in DOMAIN users : users[i].uid = doc.uid

\* the validation of the body and findOne({ uid })
RegisterFind(p) ==
    /\ Free(p)
    /\ \E b \in RegisterBodies :
        /\ req' = [req EXCEPT ![p] = [op |-> "register", body |-> b]]
        /\ IF b.uid = "" \/ b.email = "" \/ b.fbName = ""
           THEN Finish(p, Response(400, "UID, email, and Facebook Name are required."))
           ELSE IF Len(FindUser(b.uid)) > 0
           THEN Finish(p, [status |-> 200,
                           message |-> "User profile already exists for this UID.",
                           userProfile |-> FindUser(b.uid)[1]])
           ELSE Goto(p, "register_insert", [profile |-> newUserProfile(b)])
    /\ UNCHANGED <<storeVars, now>>

\* insertOne(newUserProfile)
RegisterInsert(p) ==
    /\ pc[p] = "register_insert"
    /\ IF DuplicateKey(loc[p].profile)
       THEN /\ Finish(p, Response(500, "Failed to save user profile. Please try again later."))
            /\ UNCHANGED users
       ELSE /\ users' = Append(users, loc[p].profile)
            /\ Finish(p, [status |-> 201,
                          message |-> "User profile created successfully! Awaiting admin approval.",
                          userProfile |-> loc[p].profile])
    /\ UNCHANGED <<reports, nextId, idpClaims, idpAccounts, tokens, trashedFrom, now, req>>

\* ------------------------------------------------ PATCH /api/users/:uid/role
RoleTargets == {"u1", "s1", "u3"}
RoleInputs == {"user", "admin", "superadmin", "owner", ""}

\* `User role updated to '${role}' successfully.`
RoleUpdatedMessage(role) ==
    CASE role = "user" -> "User role updated to 'user' successfully."
      [] role = "admin" -> "User role updated to 'admin' successfully."
      [] role = "superadmin" -> "User role updated to 'superadmin' successfully."

MayChangeRolesAdmin(role) == role = "admin" \/ role = "superadmin"

\* the handler's test on req.userProfile.role
MayChangeRoles(role) == role = "superadmin"

IsSelfDemotionNever(callerUid, uid, role) == FALSE

\* req.userProfile.uid === uid && role !== 'superadmin'
IsSelfDemotion(callerUid, uid, role) == callerUid = uid /\ role # "superadmin"

\* updateOne({ uid }, { $set: fields }): the collection afterwards
UpdateUser(uid, fields) ==
    LET hits == {i \in DOMAIN users : users[i].uid = uid}
        first == IF hits = {} THEN 0 ELSE CHOOSE i \in hits : \A j \in hits : i <= j
    IN  [i \in DOMAIN users |-> IF i = first THEN DocSet(users[i], fields) ELSE users[i]]

RoleGate(p) == AdminGate(p, "role", "role_update")

\* the role check, the validation of uid and role, and updateOne, for
\* requests that name a uid of targets and a role of roles
RoleUpdateOn(p, targets, roles) ==
    /\ pc[p] = "role_update"
    /\ IF ~MayChangeRoles(loc[p].role)
       THEN /\ Finish(p, Response(403, "Access denied: Only superadmins can change user roles."))
            /\ UNCHANGED <<req, users>>
       ELSE \E uid \in targets, role \in roles :
            /\ req' = [req EXCEPT ![p] = DocSet(req[p], [uid |-> uid, role |-> role])]
            /\ IF role = "" \/ role \notin Roles
               THEN /\ Finish(p, Response(400, "Invalid role provided. Must be \"user\", \"admin\", or \"superadmin\"."))
                    /\ UNCHANGED users
               ELSE IF IsSelfDemotion(loc[p].uid, uid, role)
               THEN /\ Finish(p, Response(400, "Cannot demote your own account from superadmin role."))
                    /\ UNCHANGED users
               ELSE LET after == UpdateUser(uid, [role |-> role])
                    IN  /\ users' = after
                        /\ IF Len(FindUser(uid)) = 0
                           THEN Finish(p, Response(404, "User not found."))
                           ELSE IF after = users
                           THEN Finish(p, Response(200, "User role already set to this value or no changes made."))
                           ELSE Goto(p, "role_claims", loc[p])
    /\ UNCHANGED <<reports, nextId, idpClaims, idpAccounts, tokens, trashedFrom, now>>

RoleUpdate(p) == RoleUpdateOn(p, RoleTargets, RoleInputs)

\* admin.auth().setCustomUserClaims(uid, { role }): it succeeds, or the
\* provider fails (always so for a uid without an account) and the handler
\* answers 500
RoleSetClaims(p) ==
    /\ pc[p] = "role_claims"
    /\ \E providerOk \in {b \in BOOLEAN : ~b \/ req[p].uid \in idpAccounts} :
        IF providerOk
        THEN /\ idpClaims' = [idpClaims EXCEPT ![req[p].uid] = req[p].role]
             /\ tokens' = tokens \cup {Token("valid", req[p].uid, req[p].role)}
             /\ Finish(p, Response(200, RoleUpdatedMessage(req[p].role)))
        ELSE /\ Finish(p, Response(500, "Server error while updating user role."))
             /\ UNCHANGED <<idpClaims, tokens>>
    /\ UNCHANGED <<reports, nextId, users, idpAccounts, trashedFrom, now, req>>

\* ---------------------------------------------- PATCH /api/users/:uid/status
StatusInputs == {"approved", "pending", "rejected", "banned", ""}

\* !status || !['approved', 'pending', 'rejected'].includes(status), negated
StatusIsValidAny(status) == status # ""
StatusIsValid(status) == status # "" /\ status \in {"approved", "pending", "rejected"}

StatusGate(p) == AdminGate(p, "status", "status_update")

\* the role check, the validation of the status, and updateOne
StatusUpdate(p) ==
    /\ pc[p] = "status_update"
    /\ IF ~IsAdminRole(loc[p].role)
       THEN /\ Finish(p, Response(403, "Access denied: Insufficient privileges to change user status."))
            /\ UNCHANGED <<req, users>>
       ELSE \E uid \in RoleTargets, status \in StatusInputs :
            /\ req' = [req EXCEPT ![p] = DocSet(req[p], [uid |-> uid, status |-> status])]
            /\ IF ~StatusIsValid(status)
               THEN /\ Finish(p, Response(400, "Invalid status provided. Must be \"approved\", \"pending\", or \"rejected\"."))
                    /\ UNCHANGED users
               ELSE LET after == UpdateUser(uid, [status |-> status])
                    IN  /\ users' = after
                        /\ IF Len(FindUser(uid)) = 0
                           THEN Finish(p, Response(404, "User not found."))
                           ELSE IF after = users
                           THEN Finish(p, Response(200, "User status already set to this value or no changes made."))
                           ELSE Finish(p, Response(200,
                                    CASE status = "approved" -> "User status updated to 'approved' successfully."
                                      [] status = "pending" -> "User status updated to 'pending' successfully."
                                      [] status = "rejected" -> "User status updated to 'rejected' successfully."
                                      [] OTHER -> "User status updated successfully."))
    /\ UNCHANGED <<reports, nextId, idpClaims, idpAccounts, tokens, trashedFrom, now>>

\* --------------------------------------------------- GET /api/users/:uid
\* findOne({ uid }) and the answer chosen from the stored status
\* the answer for a stored profile
GetUserResponseOpen(user) == [status |-> 200, user |-> user]
GetUserResponse(user) ==
    IF user.status = "pending"
    THEN Response(403, "Your account is currently pending admin approval. Please wait for an administrator to approve it.")
    ELSE IF user.status = "rejected"
    THEN Response(403, "Your account has been rejected by an administrator. Please contact support if you believe this is an error.")
    ELSE [status |-> 200, user |-> user]

GetUser(p) ==
    /\ Free(p)
    /\ \E uid \in RoleTargets :
        /\ req' = [req EXCEPT ![p] = [op |-> "getUser", uid |-> uid]]
        /\ LET user == FindUser(uid)
           IN  IF Len(user) = 0
               THEN Finish(p, Response(404, "User profile not found in database."))
               ELSE Finish(p, GetUserResponse(user[1]))
    /\ UNCHANGED <<storeVars, now>>

\* ------------------------------------------------ DELETE /api/users/:uid
IsSelfDeleteNever(callerUid, uid) == FALSE

\* req.userProfile.uid === uidToDelete
IsSelfDelete(callerUid, uid) == callerUid = uid

ProtectedTargetNone(callerRole, targetUser) == FALSE

\* an admin may not delete an admin or a superadmin
ProtectedTarget(callerRole, targetUser) ==
    /\ Len(targetUser) > 0
    /\ callerRole = "admin"
    /\ targetUser[1].role = "admin" \/ targetUser[1].role = "superadmin"

DeleteGate(p) == AdminGate(p, "deleteUser", "deleteUser_find")

\* the role check, the self-deletion check, findOne({ uid }) and the check
\* of the target's role
DeleteFind(p) ==
    /\ pc[p] = "deleteUser_find"
    /\ IF ~IsAdminRole(loc[p].role)
       THEN /\ Finish(p, Response(403, "Access denied: Insufficient privileges to delete users."))
            /\ UNCHANGED req
       ELSE \E uid \in RoleTargets :
            /\ req' = [req EXCEPT ![p] = DocSet(req[p], [uid |-> uid])]
            /\ IF IsSelfDelete(loc[p].uid, uid)
               THEN Finish(p, Response(400, "Cannot delete your own account via this interface."))
               ELSE IF ProtectedTarget(loc[p].role, FindUser(uid))
               THEN Finish(p, Response(403, "Admins cannot delete other admins or superadmins."))
               ELSE Goto(p, "deleteUser_idp",
                         DocSet(loc[p], [targetUser |-> FindUser(uid)]))
    /\ UNCHANGED <<storeVars, now>>

\* the errors of admin.auth().deleteUser that the handler does not treat as
\* failures
idpErrorToleratedNone(code) == FALSE
idpErrorToleratedAny(code) == TRUE
idpErrorTolerated(code) == code = "auth/user-not-found"

\* admin.auth().deleteUser(uid): the account and its claims are removed
\* ("ok"), the account is reported missing (auth/user-not-found) and the
\* handler goes on, or the provider fails with another error and the handler
\* answers 500; the outcome is kept with the request
DeleteIdp(p) ==
    /\ pc[p] = "deleteUser_idp"
    /\ \E fails \in BOOLEAN :
        LET firebaseError == IF fails THEN "auth/internal-error"
                             ELSE IF req[p].uid \in idpAccounts THEN "ok"
                             ELSE "auth/user-not-found"
        IN  /\ req' = [req EXCEPT ![p] = DocSet(req[p], [firebaseError |-> firebaseError])]
            /\ IF firebaseError = "ok"
               THEN /\ idpAccounts' = idpAccounts \ {req[p].uid}
                    /\ idpClaims' = [idpClaims EXCEPT ![req[p].uid] = NoRole]
                    /\ Goto(p, "deleteUser_store", loc[p])
               ELSE /\ UNCHANGED <<idpAccounts, idpClaims>>
                    /\ IF idpErrorTolerated(firebaseError)
                       THEN Goto(p, "deleteUser_store", loc[p])
                       ELSE Finish(p, Response(500, "Failed to delete user from Firebase Authentication."))
    /\ UNCHANGED <<reports, nextId, users, tokens, trashedFrom, now>>

\* deleteOne({ uid }) and the response chosen from deletedCount and targetUser
DeleteStore(p) ==
    /\ pc[p] = "deleteUser_store"
    /\ LET hits == {i \in DOMAIN users : users[i].uid = req[p].uid}
           first == IF hits = {} THEN 0 ELSE CHOOSE i \in hits : \A j \in hits : i <= j
       IN  /\ users' = IF first = 0 THEN users
                       ELSE [i \in 1..(Len(users) - 1) |->
                                IF i >= first THEN users[i + 1] ELSE users[i]]
           /\ IF hits = {} /\ Len(loc[p].targetUser) = 0
              THEN Finish(p, Response(404, "User profile not found in database and not deleted from Firebase Auth (if it existed)."))
              ELSE Finish(p, [status |-> 200,
                              message |-> "User and their profile successfully deleted.",
                              uid |-> req[p].uid])
    /\ UNCHANGED <<reports, nextId, idpClaims, idpAccounts, tokens, trashedFrom, now, req>>

\* ------------------------------------------------------ fetchPaginatedData
\* query operators on one field
Eq(v) == [op |-> "eq", v |-> v, vs |-> {}, b |-> FALSE]
In(vs) == [op |-> "in", v |-> "", vs |-> vs, b |-> FALSE]
ExistsIsTrue(b) == [op |-> "exists", v |-> "", vs |-> {}, b |-> TRUE]
ExistsIs(b) == [op |-> "exists", v |-> "", vs |-> {}, b |-> b]

\* whether doc satisfies condition c on field f
FieldHolds(doc, f, c) ==
    CASE c.op = "exists" -> Exists(doc, f) = c.b
      [] c.op = "eq" -> Exists(doc, f) /\ doc[f] = c.v
      [] c.op = "in" -> Exists(doc, f) /\ doc[f] \in c.vs

\* whether doc satisfies the field conditions of the query object q
Satisfies(doc, q) == \A f \in DOMAIN q : FieldHolds(doc, f, q[f])

\* new RegExp(term, 'i').test(text), for terms made of literal characters
\* and the wildcard "."
RegexTest(term, text) ==
    \E at \in 1..(Len(text) - Len(term) + 1) :
        \A i \in 1..Len(term) :
            term[i] = "." \/ Lower(term[i]) = Lower(text[at + i - 1])

searchFields(collectionName) ==
    IF collectionName = "userReports" THEN {"name", "facebookLink", "phone"}
    ELSE IF collectionName = "users" THEN {"email", "fbName"}
    ELSE {}

\* roleFilter.split(',').map(r => r.trim()) for the role parameters in use
SplitRoles(roleFilter) ==
    CASE roleFilter = "admin,superadmin" -> <<"admin", "superadmin">>
      [] roleFilter = "user, admin" -> <<"user", "admin">>
      [] OTHER -> <<roleFilter>>

\* the field conditions built from baseQuery, the collection and the status
\* and role parameters (a later assignment to a field replaces an earlier one)
queryConditions(collectionName, baseQuery, includeDeleted, params) ==
    LET q1 == IF collectionName = "userReports"
              THEN DocSet(baseQuery, [deletedAt |-> ExistsIs(includeDeleted)])
              ELSE baseQuery
        q2 == IF params.status # ""
              THEN DocSet(q1, [status |-> Eq(params.status)])
              ELSE q1
        roles == SplitRoles(params.role)
    IN  IF params.role # ""
        THEN DocSet(q2, [role |-> IF Len(roles) > 1 THEN In(Range(roles))
                                  ELSE Eq(roles[1])])
        ELSE q2

exclusionPartOff(doc) == TRUE

\* { $expr: { $ne: ["$name", "$reporterName"] } }
exclusionPart(doc) == doc.name # doc.reporterName

\* whether doc is matched by the query fetchPaginatedData composes
Matches(collectionName, baseQuery, includeDeleted, params, doc) ==
    /\ Satisfies(doc, queryConditions(collectionName, baseQuery, includeDeleted, params))
    /\ (params.search # "" /\ searchFields(collectionName) # {}) =>
          \E f \in searchFields(collectionName) :
              Exists(doc, f) /\ RegexTest(Chars(params.search), Chars(doc[f]))
    /\ (collectionName = "userReports" /\ params.search # "") =>
          exclusionPart(doc)

\* req.query of a listing request ("" for an absent parameter)
Params(search, status, role) == [search |-> search, status |-> status, role |-> role]
NoParams == Params("", "", "")

\* the listing routes: collection, baseQuery, includeDeleted
Route(collectionName, baseQuery, includeDeleted) ==
    [collectionName |-> collectionName, baseQuery |-> baseQuery,
     includeDeleted |-> includeDeleted]
userReportsRoute == Route("userReports", [deletedAt |-> ExistsIs(FALSE)], FALSE)
suspendedUsersRoute ==
    Route("userReports", [status |-> Eq("suspended"), deletedAt |-> ExistsIs(FALSE)], FALSE)
bannedUsersRoute ==
    Route("userReports", [status |-> Eq("banned"), deletedAt |-> ExistsIs(FALSE)], FALSE)
allUserReportsRoute == Route("userReports", [deletedAt |-> ExistsIs(FALSE)], FALSE)
trashedReportsRoute == Route("userReports", [deletedAt |-> ExistsIs(TRUE)], TRUE)
ActiveRoutes == {userReportsRoute, suspendedUsersRoute, bannedUsersRoute, allUserReportsRoute}

\* the ids of the reports a listing route returns over all its pages
ListedIds(route, params) ==
    {i \in DOMAIN reports :
        Matches(route.collectionName, route.baseQuery, route.includeDeleted, params, reports[i])}

\* GET /api/users
usersRoute == Route("users", <<>>, FALSE)

\* the route registered under each path
RouteOf(routeName) ==
    CASE routeName = "userReports" -> userReportsRoute
      [] routeName = "suspendedUsers" -> suspendedUsersRoute
      [] routeName = "bannedUsers" -> bannedUsersRoute
      [] routeName = "allUserReports" -> allUserReportsRoute
      [] routeName = "trashedReports" -> trashedReportsRoute
      [] routeName = "users" -> usersRoute
OpenRouteNames == {"userReports", "suspendedUsers", "bannedUsers", "allUserReports"}

\* req.query with its page and limit strings ("" for an absent parameter)
Query(page, limit, search, status, role) ==
    [page |-> page, limit |-> limit, search |-> search, status |-> status, role |-> role]

\* the query strings of the listing requests on the report routes
ReportQueries ==
    {Query(pg, lm, "", st, "") :
        pg \in {"", "0", "-1", "2", "1+2"}, lm \in {"", "0", "-1", "1", "2", "a"},
        st \in {"", "banned"}}
    \cup {Query(pl[1], pl[2], se, st, "") :
        pl \in {<<"", "">>, <<"2", "1">>}, se \in {"", "a", "b", ".", "("},
        st \in {"", "banned", "suspended"}}

\* the query strings of the listing requests on /api/users
UserQueries ==
    {Query(pl[1], pl[2], se, st, ro) :
        pl \in {<<"", "">>, <<"2", "1">>, <<"", "-1">>}, se \in {"", "a", "."},
        st \in {"", "approved"}, ro \in {"", "admin", "admin,superadmin", "user, admin"}}

\* the query strings of the requests that page through /api/userReports
PagingQueries ==
    {Query(pg, lm, "", "", "") : pg \in {"", "2"}, lm \in {"", "1"}}

DigitValue(c) ==
    CASE c = "0" -> 0 [] c = "1" -> 1 [] c = "2" -> 2 [] c = "3" -> 3 [] c = "4" -> 4
      [] c = "5" -> 5 [] c = "6" -> 6 [] c = "7" -> 7 [] c = "8" -> 8 [] c = "9" -> 9

\* the value of the digits s[1..k]
RECURSIVE DigitsValue(_, _)
DigitsValue(s, k) ==
    IF k = 0 THEN 0 ELSE 10 * DigitsValue(s, k - 1) + DigitValue(s[k])

\* parseInt(s): leading white space and one sign are skipped, the longest
\* run of digits is read and the rest ignored; NaN without a digit
ParseInt(s) ==
    LET blanks == IF \A i \in 1..Len(s) : s[i] \in WhiteSpace THEN Len(s)
                  ELSE (CHOOSE i \in 1..Len(s) :
                            s[i] \notin WhiteSpace /\ \A j \in 1..(i - 1) : s[j] \in WhiteSpace) - 1
        t == SubSeq(s, blanks + 1, Len(s))
        signed == Len(t) > 0 /\ t[1] \in {"-", "+"}
        body == IF signed THEN Tail(t) ELSE t
        k == Cardinality({i \in 1..Len(body) : \A j \in 1..i : body[j] \in Digit})
        n == DigitsValue(body, k)
    IN  IF k = 0 THEN [nan |-> TRUE, n |-> 0]
        ELSE [nan |-> FALSE, n |-> IF signed /\ t[1] = "-" THEN 0 - n ELSE n]

\* parseInt(...) || d
OrDefault(parsed, d) == IF parsed.nan \/ parsed.n = 0 THEN d ELSE parsed.n

PageOfLimitDefault(q) == OrDefault(ParseInt(Chars(q.page)), 25)

PageOf(q) == OrDefault(ParseInt(Chars(q.page)), 1)
LimitOf(q) == OrDefault(ParseInt(Chars(q.limit)), 25)
SkipOf(q) == (PageOf(q) - 1) * LimitOf(q)

\* Math.ceil(a / b) for b # 0
CeilDiv(a, b) == IF b > 0 THEN (a + b - 1) \div b ELSE 0 - (a \div (0 - b))

\* new RegExp(term, 'i') throws a SyntaxError: a group that is opened and
\* never closed
RegExpSyntaxError(term) ==
    \E i \in 1..Len(term) :
        term[i] = "(" /\ \A j \in (i + 1)..Len(term) : term[j] # ")"

\* db.collection(collectionName): key -> document
Docs(collectionName) == IF collectionName = "userReports" THEN reports ELSE users

\* the keys of the documents the composed query matches
MatchingKeys(route, q) ==
    {k \in DOMAIN Docs(route.collectionName) :
        Matches(route.collectionName, route.baseQuery, route.includeDeleted, q,
                Docs(route.collectionName)[k])}

\* the sort key: a document without the field sorts as null, below every date
TimestampOf(doc) == IF Exists(doc, "timestamp") THEN doc.timestamp ELSE 0 - 1

\* sort({ timestamp: -1 }): the orders the store may return the matched
\* documents in; documents with equal keys come in any order
SortedOrders(docs, keys) ==
    {s \in [1..Cardinality(keys) -> keys] :
        /\ \A i, j \in DOMAIN s : i # j => s[i] # s[j]
        /\ \A i, j \in DOMAIN s :
              i < j => TimestampOf(docs[s[i]]) >= TimestampOf(docs[s[j]])}

\* skip(skip).limit(limit).toArray(): a negative limit is taken by the driver
\* as its absolute value
PageItems(docs, order, skip, limit) ==
    LET take == IF limit < 0 THEN 0 - limit ELSE limit
        last == IF skip + take < Len(order) THEN skip + take ELSE Len(order)
    IN  [i \in 1..(IF last > skip THEN last - skip ELSE 0) |->
            [key |-> order[skip + i], doc |-> docs[order[skip + i]]]]

\* the response of the catch block
FetchError(collectionName) ==
    Response(500, IF collectionName = "userReports"
                  THEN "Server error while fetching data from userReports"
                  ELSE "Server error while fetching data from users")

\* fetchPaginatedData up to countDocuments: the query is read and composed
\* (a bad search pattern throws) and the matching documents are counted
FetchCount(p, routeName, queries) ==
    /\ \E q \in queries :
        /\ req' = [req EXCEPT ![p] =
                      DocSet(req[p], [op |-> "list", route |-> routeName, query |-> q])]
        /\ IF q.search # "" /\ RegExpSyntaxError(Chars(q.search))
           THEN Finish(p, FetchError(RouteOf(routeName).collectionName))
           ELSE Goto(p, "list_find",
                     [totalCount |-> Cardinality(MatchingKeys(RouteOf(routeName), q)),
                      counted |-> Docs(RouteOf(routeName).collectionName)])
    /\ UNCHANGED <<storeVars, now>>

\* GET /api/userReports, /api/suspendedUsers, /api/bannedUsers and
\* /api/allUserReports
OpenListCount(p, queries) ==
    /\ Free(p)
    /\ \E routeName \in OpenRouteNames : FetchCount(p, routeName, queries)

\* GET /api/trashedReports
TrashedListGate(p) == AdminGate(p, "list", "trashed_count")

TrashedListCount(p) ==
    /\ pc[p] = "trashed_count"
    /\ IF ~IsAdminRole(loc[p].role)
       THEN /\ Finish(p, Response(403, "Access denied: Only admins can view trashed reports."))
            /\ UNCHANGED <<req, storeVars, now>>
       ELSE FetchCount(p, "trashedReports", ReportQueries)

\* GET /api/users
UsersListGate(p) == AdminGate(p, "list", "users_count")

UsersListCount(p) ==
    /\ pc[p] = "users_count"
    /\ FetchCount(p, "users", UserQueries)

\* find(queryConditions).sort().skip().limit().toArray() and the envelope;
\* the store rejects a negative skip. loc[p].counted and loc[p].seen keep, as
\* history, the collection as countDocuments and as find read it.
ListFind(p) ==
    /\ pc[p] = "list_find"
    /\ LET route == RouteOf(req[p].route)
           q == req[p].query
           docs == Docs(route.collectionName)
       IN  /\ pc' = [pc EXCEPT ![p] = "done"]
           /\ loc' = [loc EXCEPT ![p] = [seen |-> docs, counted |-> loc[p].counted]]
           /\ IF SkipOf(q) < 0
              THEN resp' = [resp EXCEPT ![p] = FetchError(route.collectionName)]
              ELSE \E order \in SortedOrders(docs, MatchingKeys(route, q)) :
                     resp' = [resp EXCEPT ![p] =
                         [status |-> 200,
                          data |-> PageItems(docs, order, SkipOf(q), LimitOf(q)),
                          currentPage |-> PageOf(q),
                          itemsPerPage |-> LimitOf(q),
                          totalItems |-> loc[p].totalCount,
                          totalPages |-> CeilDiv(loc[p].totalCount, LimitOf(q))]]
    /\ UNCHANGED <<storeVars, now, req, connVars>>

\* ------------------------------------------------------------------ clock
Tick ==
    /\ now < MaxTime
    /\ now' = now + 1
    /\ UNCHANGED <<storeVars, pc, req, loc, resp, connVars>>

\* ------------------------------------------------------------ initial state
\* the store the server is started on: the profiles registered so far, the
\* administrators among them; s1 has had its role pushed to its claims, and
\* u2 still holds a token from the time it was an admin
InitData ==
    /\ reports = <<>>
    /\ trashedFrom = <<>>
    /\ nextId = 1
    /\ users = <<Profile("s1", "s1@x", "S", "approved", "superadmin", 0),
                 Profile("a1", "a1@x", "A", "approved", "admin", 0),
                 Profile("u1", "u1@x", "U", "approved", "user", 0),
                 Profile("u2", "u2@x", "V", "approved", "user", 0)>>
    /\ idpAccounts = Uids
    /\ idpClaims = [u \in Uids |-> CASE u = "s1" -> "superadmin"
                                     [] u = "u2" -> "user"
                                     [] OTHER -> NoRole]
    /\ tokens = {Token("valid", u, idpClaims[u]) : u \in Uids}
                   \cup {Token("valid", "u2", "admin")}
    /\ now = 0
    /\ pc = [p \in Procs |-> "idle"]
    /\ req = [p \in Procs |-> NoReq]
    /\ loc = [p \in Procs |-> NoLoc]
    /\ resp = [p \in Procs |-> NoResp]

\* started outside production: connectMongoDB has finished before app.listen
Init ==
    /\ InitData
    /\ client = 1 /\ db = 1 /\ clients = {1} /\ connected = {1} /\ indexRuns = 1

\* started in production: no connection until the first request comes in
InitCold ==
    /\ InitData
    /\ client = 0 /\ db = 0 /\ clients = {} /\ connected = {} /\ indexRuns = 0

\* ------------------------------------------- ensureDbConnected, connectMongoDB
MaxClients == 3

\* db && client && client.topology && client.topology.isConnected()
AlreadyConnected == db # 0 /\ client # 0 /\ client \in connected

\* the middleware calls connectMongoDB: it returns at once on a live
\* connection (next() runs; the handler behind it is left out), or it creates
\* a MongoClient, stores it in client and calls its connect()
ConnectStart(p) ==
    /\ Free(p)
    /\ AlreadyConnected \/ Cardinality(clients) < MaxClients
    /\ req' = [req EXCEPT ![p] = [op |-> "connect"]]
    /\ resp' = [resp EXCEPT ![p] = NoResp]
    /\ IF AlreadyConnected
       THEN /\ pc' = [pc EXCEPT ![p] = "done"]
            /\ loc' = [loc EXCEPT ![p] = NoLoc]
            /\ UNCHANGED connVars
       ELSE LET c == Cardinality(clients) + 1
            IN  /\ client' = c
                /\ clients' = clients \cup {c}
                /\ pc' = [pc EXCEPT ![p] = "connect_connect"]
                /\ loc' = [loc EXCEPT ![p] = [c |-> c]]
                /\ UNCHANGED <<db, connected, indexRuns>>
    /\ UNCHANGED <<storeVars, now>>

\* await client.connect() settles for the client it was called on; on success
\* db = client.db(...) reads the module variable as it is then, and the
\* createIndex calls are issued; a failure is thrown to the middleware,
\* which answers 500
ConnectConnect(p) ==
    /\ pc[p] = "connect_connect"
    /\ \E ok \in BOOLEAN :
        IF ok
        THEN /\ connected' = connected \cup {loc[p].c}
             /\ db' = client
             /\ pc' = [pc EXCEPT ![p] = "connect_indexes"]
             /\ UNCHANGED <<loc, resp>>
        ELSE /\ pc' = [pc EXCEPT ![p] = "done"]
             /\ resp' = [resp EXCEPT ![p] = Response(500, "Server is unable to connect to the database. Please try again later.")]
             /\ loc' = [loc EXCEPT ![p] = NoLoc]
             /\ UNCHANGED <<db, connected>>
    /\ UNCHANGED <<storeVars, now, req, client, clients, indexRuns>>

\* the createIndex calls and the ping run, and next() is called
ConnectIndexes(p) ==
    /\ pc[p] = "connect_indexes"
    /\ indexRuns' = indexRuns + 1
    /\ pc' = [pc EXCEPT ![p] = "done"]
    /\ loc' = [loc EXCEPT ![p] = NoLoc]
    /\ UNCHANGED <<storeVars, now, req, resp, client, db, clients, connected>>

\* --------------------------------------------------------- specifications
\* the report lifecycle, one request at a time
ReportStep(p) ==
    \/ Submit(p)
    \/ TrashProfile(p) \/ TrashFind(p) \/ TrashUpdate(p)
    \/ AdminDeleteGate(p) \/ AdminDeleteFind(p) \/ AdminDeleteDelete(p)
    \/ RestoreGate(p) \/ RestoreUpdate(p)
    \/ PurgeGate(p) \/ PurgeDelete(p)
    \/ BulkGate(p) \/ BulkApply(p)
    \/ Reply(p)

NextReports == Tick \/ \E p \in SeqProcs : ReportStep(p)

SpecReports == Init /\ [][NextReports]_vars

\* registration, requests handled concurrently
RegisterStep(p) == RegisterFind(p) \/ RegisterInsert(p) \/ Reply(p)

NextRegister == Tick \/ \E p \in Procs : RegisterStep(p)

SpecRegister == Init /\ [][NextRegister]_vars

\* role updates, one request at a time
RoleStep(p) == RoleGate(p) \/ RoleUpdate(p) \/ RoleSetClaims(p) \/ Reply(p)

NextRoles == \E p \in SeqProcs : RoleStep(p)

SpecRoles == Init /\ [][NextRoles]_vars

\* listings over a store of submitted and trashed reports, one request at a
\* time and within one reading of the clock
ListingStep(p) ==
    \/ Submit(p)
    \/ TrashProfile(p) \/ TrashFind(p) \/ TrashUpdate(p)
    \/ OpenListCount(p, ReportQueries)
    \/ TrashedListGate(p) \/ TrashedListCount(p)
    \/ UsersListGate(p) \/ UsersListCount(p)
    \/ ListFind(p)
    \/ Reply(p)

NextListing == \E p \in SeqProcs : ListingStep(p)

SpecListing == Init /\ [][NextListing]_vars

\* paging through /api/userReports, requests handled concurrently with
\* submissions
PagingStep(p) ==
    \/ Submit(p)
    \/ OpenListCount(p, PagingQueries)
    \/ ListFind(p)
    \/ Reply(p)

NextPaging == Tick \/ \E p \in Procs : PagingStep(p)

SpecPaging == Init /\ [][NextPaging]_vars

\* reports trashed and restored, one request at a time, with a store that
\* may be down when a request arrives or when its handler runs
NextFailures ==
    \E p \in SeqProcs :
        \/ Submit(p)
        \/ TrashProfile(p) \/ TrashFind(p) \/ TrashUpdate(p)
        \/ RestoreGate(p) \/ RestoreUpdate(p)
        \/ RestoreGateStoreDown(p) \/ RestoreUpdateStoreDown(p)
        \/ Reply(p)

SpecFailures == Init /\ [][NextFailures]_vars

\* restores and purges of both slots racing on the reports that slot 1 has
\* submitted and trashed
NextTrashRace ==
    \/ Submit(1)
    \/ TrashProfile(1) \/ TrashFind(1) \/ TrashUpdate(1)
    \/ \E p \in Procs :
          \/ RestoreGate(p) \/ RestoreUpdate(p)
          \/ PurgeGate(p) \/ PurgeDelete(p)
          \/ Reply(p)

SpecTrashRace == Init /\ [][NextTrashRace]_vars

\* requests arriving at a server started without a connection
NextConnect ==
    \E p \in Procs :
        ConnectStart(p) \/ ConnectConnect(p) \/ ConnectIndexes(p) \/ Reply(p)

SpecConnect == InitCold /\ [][NextConnect]_vars

\* a deletion in slot 2 racing with the promotions of u1 in slot 1
NextDeleteRace ==
    \/ RoleGate(1) \/ RoleUpdateOn(1, {"u1"}, {"admin"}) \/ RoleSetClaims(1) \/ Reply(1)
    \/ DeleteGate(2) \/ DeleteFind(2) \/ DeleteIdp(2) \/ DeleteStore(2) \/ Reply(2)

SpecDeleteRace == Init /\ [][NextDeleteRace]_vars

\* the life of the profiles, one request at a time
NextProfiles ==
    \E p \in SeqProcs :
        \/ RegisterFind(p) \/ RegisterInsert(p)
        \/ GetUser(p)
        \/ StatusGate(p) \/ StatusUpdate(p)
        \/ RoleGate(p) \/ RoleUpdateOn(p, {"u1"}, {"admin", ""}) \/ RoleSetClaims(p)
        \/ DeleteGate(p) \/ DeleteFind(p) \/ DeleteIdp(p) \/ DeleteStore(p)
        \/ Reply(p)

SpecProfiles == Init /\ [][NextProfiles]_vars

\* ==================================================================
\* Report lifecycle
\* ==================================================================
ReportIds == 1..MaxReports

\* the lifecycle state of report id in the store rs with id counter n
Stage(rs, n, id) ==
    IF id \in DOMAIN rs
    THEN IF Exists(rs[id], "deletedAt") THEN "trashed" ELSE "active"
    ELSE IF id < n THEN "purged" ELSE "absent"

\* slot p takes a step
Acts(p) == pc'[p] # pc[p] \/ req'[p] # req[p] \/ resp'[p] # resp[p]

\* slot p holds a finished request of route op
Done(p, op) == pc[p] = "done" /\ req[p].op = op

\* the request of slot p was admitted by the admin gate as admin or superadmin
AdmittedAdmin(p) == "role" \in DOMAIN loc[p] /\ loc[p].role \in {"admin", "superadmin"}

\* C1: a report changes its lifecycle state only by submit (absent to
\* active), by the trash request of its reporter (active to trashed), by a
\* single or bulk restore of an admitted administrator (trashed to active) or
\* by an administrator's permanent delete, purge or bulk permanent_delete
\* (active or trashed to purged); a purged id never changes state again.
C1_Lifecycle ==
    [][\A id \in ReportIds :
        LET a == Stage(reports, nextId, id)
            b == Stage(reports', nextId', id)
        IN  a # b =>
            \E p \in Procs :
                /\ Acts(p)
                /\ \/ /\ a = "absent" /\ b = "active"
                      /\ req'[p].op = "submit"
                   \/ /\ a = "active" /\ b = "trashed"
                      /\ req[p].op = "trash" /\ req[p].id = id
                      /\ req[p].tok.uid = reports[id].reporterId
                   \/ /\ a = "trashed" /\ b = "active"
                      /\ AdmittedAdmin(p)
                      /\ \/ req'[p].op = "restore" /\ req'[p].id = id
                         \/ req'[p].op = "bulk" /\ req'[p].action = "restore"
                   \/ /\ a \in {"active", "trashed"} /\ b = "purged"
                      /\ AdmittedAdmin(p)
                      /\ \/ req'[p].op \in {"adminDelete", "purge"} /\ req'[p].id = id
                         \/ req'[p].op = "bulk" /\ req'[p].action = "permanent_delete"
    ]_vars

\* a report that was trashed and restored sits next to a purged one
C1_Witness ==
    \E i, j \in ReportIds :
        /\ Stage(reports, nextId, i) = "purged"
        /\ Stage(reports, nextId, j) = "active"
        /\ j \in DOMAIN trashedFrom

\* the caller uid has a stored profile whose role is exactly user
StoredUser(uid) == \E i \in DOMAIN users : users[i].uid = uid /\ users[i].role = "user"

\* the only difference between the stores rs and rt is report id
OnlyChanged(rs, rt, id) ==
    /\ DOMAIN rs = DOMAIN rt
    /\ \A i \in DOMAIN rs : i # id => rs[i] = rt[i]

\* every authenticated trash request whose caller has no stored profile with
\* role user, or is not the reporter of the report it names, is answered 403
TrashRefusals ==
    \A p \in Procs :
        (Done(p, "trash") /\ req[p].tok.kind = "valid") =>
            /\ ~StoredUser(req[p].tok.uid) => resp[p].status = 403
            /\ ("id" \in DOMAIN req[p] /\ req[p].id \in DOMAIN reports
                   /\ reports[req[p].id].reporterId # req[p].tok.uid)
                  => resp[p].status = 403

\* C2: a trash request changes the report store only when the caller's stored
\* profile has role user and the caller is the reporter of the report named,
\* and then it changes that report alone; every other authenticated caller of
\* an existing report is answered 403 and changes nothing.
C2_TrashOnlyByReporter ==
    [][/\ \A p \in Procs :
             (Acts(p) /\ req'[p].op = "trash" /\ reports' # reports) =>
                 /\ StoredUser(req[p].tok.uid)
                 /\ req[p].id \in DOMAIN reports
                 /\ reports[req[p].id].reporterId = req[p].tok.uid
                 /\ OnlyChanged(reports, reports', req[p].id)
                 /\ resp'[p].status = 200
       /\ TrashRefusals'
    ]_vars

\* a user with a profile of role user was refused the report of another
C2_Witness ==
    \E p \in Procs :
        /\ Done(p, "trash") /\ resp[p].status = 403
        /\ StoredUser(req[p].tok.uid)
        /\ "id" \in DOMAIN req[p] /\ req[p].id \in DOMAIN reports
        /\ ~Exists(reports[req[p].id], "deletedAt")

\* the query parameters the listings are looked at with
ListingParams ==
    {NoParams, Params("", "banned", ""), Params("", "suspended", ""),
     Params("a", "", ""), Params("5", "", ""), Params("x.c", "banned", "")}

\* C6: after a successful trash the report has deletedAt and deletedBy, is in
\* no active listing and is in the trashed listing; after a successful restore
\* it equals, field for field, the document it was before it was trashed, is
\* in the active listing again and in no trashed listing.
C6_TrashRestoreRoundTrip ==
    \A p \in Procs :
        /\ (Done(p, "trash") /\ resp[p].status = 200) =>
              LET id == req[p].id
              IN  /\ id \in DOMAIN reports
                  /\ Exists(reports[id], "deletedAt") /\ Exists(reports[id], "deletedBy")
                  /\ reports[id].deletedBy = req[p].tok.uid
                  /\ DocUnset(reports[id], {"deletedAt", "deletedBy"}) = trashedFrom[id]
                  /\ \A route \in ActiveRoutes, q \in ListingParams :
                        id \notin ListedIds(route, q)
                  /\ id \in ListedIds(trashedReportsRoute, NoParams)
        /\ (Done(p, "restore") /\ resp[p].status = 200) =>
              LET id == req[p].id
              IN  /\ id \in DOMAIN reports
                  /\ reports[id] = trashedFrom[id]
                  /\ DOMAIN reports[id] \cap {"deletedAt", "deletedBy"} = {}
                  /\ id \in ListedIds(userReportsRoute, NoParams)
                  /\ id \in ListedIds(allUserReportsRoute, NoParams)
                  /\ \A q \in ListingParams : id \notin ListedIds(trashedReportsRoute, q)

\* a report was trashed at a later time than it was submitted, and restored
C6_Witness ==
    \E p \in Procs :
        /\ Done(p, "restore") /\ resp[p].status = 200
        /\ req[p].id \in DOMAIN reports
        /\ reports[req[p].id].timestamp < now

\* C7: re-applying a transition whose target state already holds is a no-op
\* answered with a no-changes message. Stated here for the trash: a trash, by
\* its reporter, of a report that is already trashed leaves the report as it
\* was (deletedAt and deletedBy included) and is answered 200 with the
\* already-in-trash message.
C7_SecondTrashIsNoChange ==
    [][\A p \in Procs :
          (pc[p] = "trash_update" /\ pc'[p] = "done"
              /\ req[p].id \in DOMAIN reports
              /\ Exists(reports[req[p].id], "deletedAt")) =>
             /\ reports' = reports
             /\ resp'[p] = Response(200, "User report was already in trash.")
    ]_vars

\* C8: a restore request for an existing report that has no deletedAt is
\* answered 404 and leaves the report store as it was.
C8_RestoreActiveNotFound ==
    [][\A p \in Procs :
          (pc[p] = "restore_update" /\ pc'[p] = "done"
              /\ "id" \in DOMAIN req'[p]
              /\ req'[p].id \in DOMAIN reports
              /\ ~Exists(reports[req'[p].id], "deletedAt")) =>
             /\ resp'[p].status = 404
             /\ reports' = reports
    ]_vars

\* a restore of an active report was answered 404
C8_Witness ==
    \E p \in Procs :
        /\ Done(p, "restore") /\ resp[p].status = 404
        /\ "id" \in DOMAIN req[p] /\ req[p].id \in DOMAIN reports
        /\ ~Exists(reports[req[p].id], "deletedAt")

\* C9: no step of a restore, purge or bulk request changes or removes a
\* report that has no deletedAt.
C9_TrashedOnlyOpsSpareActive ==
    [][\A p \in Procs :
          (Acts(p) /\ req'[p].op \in {"restore", "purge", "bulk"}) =>
              \A id \in DOMAIN reports :
                  ~Exists(reports[id], "deletedAt") =>
                      id \in DOMAIN reports' /\ reports'[id] = reports[id]
    ]_vars

\* a bulk permanent_delete named an active report and a trashed one; the
\* trashed one is gone, the active one is still there
C9_Witness ==
    \E p \in Procs :
        /\ Done(p, "bulk") /\ resp[p].status = 200
        /\ req[p].action = "permanent_delete"
        /\ resp[p].count = 1
        /\ \E i \in Range(req[p].ids.items) :
              i \in DOMAIN reports /\ ~Exists(reports[i], "deletedAt")

\* C10: an administrator's permanent delete of an existing report, active or
\* trashed, removes that report and no other and is answered 200; for a
\* well-formed id of no report it is answered 404 and the store is unchanged.
C10_AdminDelete ==
    [][\A p \in Procs :
          /\ (pc[p] = "adminDelete_find" /\ Acts(p) /\ "id" \in DOMAIN req'[p]
                 /\ ObjectIdIsValid(req'[p].id)) =>
                /\ reports' = reports
                /\ IF req'[p].id \in DOMAIN reports
                   THEN pc'[p] = "adminDelete_delete"
                   ELSE pc'[p] = "done" /\ resp'[p].status = 404
          /\ (pc[p] = "adminDelete_delete" /\ Acts(p)) =>
                /\ DOMAIN reports' = DOMAIN reports \ {req[p].id}
                /\ \A i \in DOMAIN reports' : reports'[i] = reports[i]
                /\ req[p].id \in DOMAIN reports => resp'[p].status = 200
    ]_vars

\* a permanent delete removed a report that had been trashed and left the
\* other report in place
C10_Witness ==
    \E p \in Procs :
        /\ Done(p, "adminDelete") /\ resp[p].status = 200
        /\ req[p].id \notin DOMAIN reports
        /\ req[p].id \in DOMAIN trashedFrom
        /\ reports # <<>>

\* ==================================================================
\* User profiles
\* ==================================================================
\* the stored profiles with uid
StoredProfiles(uid) == {i \in DOMAIN users : users[i].uid = uid}

\* the role stored for uid (NoRole without a profile)
StoredRole(uid) ==
    IF StoredProfiles(uid) = {} THEN NoRole
    ELSE users[CHOOSE i \in StoredProfiles(uid) : TRUE].role

\* the role the admin gate resolves for the bearer of tok: the claim when it
\* says admin or superadmin, the stored role otherwise
CallerRole(tok) ==
    IF tok.role \in {"admin", "superadmin"} THEN tok.role ELSE StoredRole(tok.uid)

\* C3: whenever a role update is answered 200, the role claim the identity
\* provider holds for the target agrees with the role stored for it (a target
\* that never had a claim counting as user).
C3_SuccessMeansClaimSynced ==
    \A p \in Procs :
        (Done(p, "role") /\ resp[p].status = 200) =>
            \/ idpClaims[req[p].uid] = StoredRole(req[p].uid)
            \/ idpClaims[req[p].uid] = NoRole /\ StoredRole(req[p].uid) = "user"

\* every authenticated role update whose caller resolves to user or admin is
\* answered 403
RoleRefusals ==
    \A p \in Procs :
        (Done(p, "role") /\ req[p].tok.kind = "valid"
            /\ CallerRole(req[p].tok) \in {"user", "admin"}) =>
            resp[p].status = 403

\* C4: a role update changes the profile store or the claim store only for a
\* caller resolved as superadmin; a caller resolved as user or as admin is
\* answered 403, whatever the target, and changes neither store.
C4_RoleUpdateSuperadminOnly ==
    [][/\ \A p \in Procs :
             (Acts(p) /\ req'[p].op = "role"
                 /\ (users' # users \/ idpClaims' # idpClaims)) =>
                 CallerRole(req[p].tok) = "superadmin"
       /\ RoleRefusals'
    ]_vars

\* an admin was refused by the handler after passing the gate
C4_Witness ==
    \E p \in Procs :
        /\ Done(p, "role") /\ resp[p].status = 403
        /\ CallerRole(req[p].tok) = "admin"
        /\ resp[p].message = "Access denied: Only superadmins can change user roles."

\* C5: under every interleaving of registrations there is at most one
\* profile per uid, and every registration with a complete body is answered
\* with the stored profile of its uid (200 or 201), never with an error.
C5_RegistrationIdempotent ==
    /\ \A u \in Uids : Cardinality(StoredProfiles(u)) <= 1
    /\ \A p \in Procs :
          (Done(p, "register") /\ \A f \in DOMAIN req[p].body : req[p].body[f] # "") =>
              /\ resp[p].status \in {200, 201}
              /\ StoredProfiles(req[p].body.uid) # {}
              /\ resp[p].userProfile = users[CHOOSE i \in StoredProfiles(req[p].body.uid) : TRUE]

\* ==================================================================
\* Bulk action
\* ==================================================================
\* the well-formed ids among the ids of the bulk request r
BulkWellFormed(r) ==
    {r.ids.items[i] : i \in DOMAIN r.ids.items} \cap {id \in ReqIds : id # BadId}

\* C11: a bulk action of an admitted administrator whose id list has no
\* well-formed id is answered 400 and changes nothing; with a valid action
\* and at least one well-formed id it is applied to exactly the trashed
\* reports among the well-formed ids (restore clears deletedAt and deletedBy,
\* permanent_delete removes them), every other report is unchanged, and the
\* count in the response is the number of reports restored or removed.
C11_BulkAction ==
    [][\A p \in Procs :
        (pc[p] = "bulk_apply" /\ pc'[p] = "done" /\ AdmittedAdmin(p)) =>
            LET r == req'[p]
                wf == BulkWellFormed(r)
                target == {i \in DOMAIN reports :
                              i \in wf /\ Exists(reports[i], "deletedAt")}
            IN  IF wf = {}
                THEN resp'[p].status = 400 /\ reports' = reports
                ELSE /\ r.action = "restore" =>
                         /\ resp'[p].status = 200
                         /\ resp'[p].count = Cardinality(target)
                         /\ DOMAIN reports' = DOMAIN reports
                         /\ \A i \in DOMAIN reports :
                               reports'[i] =
                                   IF i \in target
                                   THEN DocUnset(reports[i], {"deletedAt", "deletedBy"})
                                   ELSE reports[i]
                     /\ r.action = "permanent_delete" =>
                         /\ resp'[p].status = 200
                         /\ resp'[p].count = Cardinality(target)
                         /\ DOMAIN reports' = (DOMAIN reports) \ target
                         /\ \A i \in DOMAIN reports' : reports'[i] = reports[i]
    ]_vars

\* a bulk restore whose list held a malformed id next to the id of a trashed
\* report restored that one report
C11_Witness ==
    \E p \in Procs :
        /\ Done(p, "bulk") /\ resp[p].status = 200
        /\ req[p].action = "restore"
        /\ BadId \in Range(req[p].ids.items)
        /\ resp[p].count = 1

\* ==================================================================
\* Listings
\* ==================================================================
\* slot p holds the envelope of a listing
Listed(p) == Done(p, "list") /\ resp[p].status = 200

\* t is the least integer not below a / b (b # 0)
IsCeiling(t, a, b) ==
    IF b > 0 THEN t * b >= a /\ (t - 1) * b < a
    ELSE t * b <= a /\ (t - 1) * b > a

\* C12: every envelope has totalPages = ceil(totalItems / itemsPerPage) and
\* holds at most itemsPerPage items, whatever the page, limit and filter
\* parameters of the request.
C12_EnvelopeArithmetic ==
    \A p \in Procs :
        Listed(p) =>
            /\ resp[p].itemsPerPage # 0
            /\ IsCeiling(resp[p].totalPages, resp[p].totalItems, resp[p].itemsPerPage)
            /\ Len(resp[p].data) <= resp[p].itemsPerPage

\* C13: every item of an active-report listing has no deletedAt and every
\* item of the trash listing has deletedAt, in every store state and for
\* every query; the query on the users collection carries no deletedAt
\* clause, so an unfiltered listing of the profiles counts all of them.
C13_SoftDeleteVisibility ==
    /\ \A p \in Procs :
          Listed(p) =>
              /\ req[p].route \in OpenRouteNames =>
                    \A i \in DOMAIN resp[p].data : ~Exists(resp[p].data[i].doc, "deletedAt")
              /\ req[p].route = "trashedReports" =>
                    \A i \in DOMAIN resp[p].data : Exists(resp[p].data[i].doc, "deletedAt")
              /\ (req[p].route = "users" /\ req[p].query.search = ""
                    /\ req[p].query.status = "" /\ req[p].query.role = "") =>
                    resp[p].totalItems = Len(users)
    /\ \A q \in UserQueries :
          ~Exists(queryConditions("users", usersRoute.baseQuery, usersRoute.includeDeleted, q),
                  "deletedAt")

\* the trash listing returned a trashed report while the store also held an
\* active one
C13_Witness ==
    \E p \in Procs :
        /\ Listed(p) /\ req[p].route = "trashedReports"
        /\ Len(resp[p].data) >= 1
        /\ \E i \in DOMAIN reports : ~Exists(reports[i], "deletedAt")

\* C14: when a status parameter is supplied, every returned record satisfies
\* the route's baseFilter and has the supplied status (so /api/bannedUsers
\* returns banned reports only, whatever the parameter).
C14_StatusIntersectsBaseFilter ==
    \A p \in Procs :
        (Listed(p) /\ req[p].query.status # "") =>
            \A i \in DOMAIN resp[p].data :
                /\ Satisfies(resp[p].data[i].doc, RouteOf(req[p].route).baseQuery)
                /\ resp[p].data[i].doc.status = req[p].query.status

\* C15: a listing of reports with a search term returns no record whose name
\* equals its reporterName; without a search term the exclusion is not
\* applied, the listing counting every report that meets the field
\* conditions of the query.
C15_SearchExclusion ==
    \A p \in Procs :
        (Listed(p) /\ req[p].route # "users") =>
            LET route == RouteOf(req[p].route)
                q == req[p].query
            IN  IF q.search # ""
                THEN \A i \in DOMAIN resp[p].data :
                        resp[p].data[i].doc.name # resp[p].data[i].doc.reporterName
                ELSE resp[p].totalItems =
                        Cardinality({i \in DOMAIN reports :
                            Satisfies(reports[i],
                                      queryConditions(route.collectionName, route.baseQuery,
                                                      route.includeDeleted, q))})

\* a search whose term occurs in the name of an active report named like its
\* reporter returned the first page without that report
C15_Witness ==
    \E p \in Procs :
        /\ Listed(p) /\ req[p].route = "userReports"
        /\ req[p].query.search = "b" /\ req[p].query.status = ""
        /\ req[p].query.page = ""
        /\ \E i \in DOMAIN reports :
              /\ ~Exists(reports[i], "deletedAt")
              /\ reports[i].name = reports[i].reporterName
              /\ RegexTest(Chars("b"), Chars(reports[i].name))
              /\ \A k \in DOMAIN resp[p].data : resp[p].data[k].key # i

\* term occurs in text as a substring, letter case ignored
ContainsIgnoreCase(term, text) ==
    \E at \in 1..(Len(text) - Len(term) + 1) :
        \A i \in 1..Len(term) : Lower(term[i]) = Lower(text[at + i - 1])

\* C16: with a search term the listing counts exactly the records that meet
\* the field conditions of the query (base filter, soft-delete clause, status
\* and role), pass the exclusion of the report collection, and hold the term
\* as a case-insensitive substring in one of the collection's search fields
\* (name, facebookLink, phone for reports; email, fbName for profiles).
C16_SearchIsSubstringMatch ==
    \A p \in Procs :
        (Listed(p) /\ req[p].query.search # "") =>
            LET route == RouteOf(req[p].route)
                q == req[p].query
                docs == Docs(route.collectionName)
                fields == IF route.collectionName = "userReports"
                          THEN {"name", "facebookLink", "phone"}
                          ELSE {"email", "fbName"}
            IN  resp[p].totalItems =
                    Cardinality({k \in DOMAIN docs :
                        /\ Satisfies(docs[k],
                                     queryConditions(route.collectionName, route.baseQuery,
                                                     route.includeDeleted, q))
                        /\ route.collectionName = "userReports" =>
                              docs[k].name # docs[k].reporterName
                        /\ \E f \in fields :
                              ContainsIgnoreCase(Chars(q.search), Chars(docs[k][f]))})

\* the keys of the items in the envelope of slot p
PageKeys(p) == {resp[p].data[i].key : i \in DOMAIN resp[p].data}

\* the keys of the documents that the query of slot p matched in the
\* collection as its find read it
SeenMatches(p) ==
    LET route == RouteOf(req[p].route)
    IN  {k \in DOMAIN loc[p].seen :
            Matches(route.collectionName, route.baseQuery, route.includeDeleted,
                    req[p].query, loc[p].seen[k])}

\* slots p1 and p2 hold listings of the same route with the same filters and
\* page size, counted and read from the same collection contents
SameListing(p1, p2) ==
    /\ Listed(p1) /\ Listed(p2)
    /\ req[p1].route = req[p2].route
    /\ req[p1].query.search = req[p2].query.search
    /\ req[p1].query.status = req[p2].query.status
    /\ req[p1].query.role = req[p2].query.role
    /\ resp[p1].itemsPerPage = resp[p2].itemsPerPage
    /\ loc[p1].seen = loc[p1].counted
    /\ loc[p2].seen = loc[p2].counted
    /\ loc[p1].seen = loc[p2].seen

\* C17: a page of size limit >= 1 holds the matching records at positions
\* (page-1)*limit+1 .. page*limit in descending timestamp order: it has
\* min(limit, matches - skip) distinct matching records with non-increasing
\* timestamps, and two different pages of the same listing read from the
\* same store have no record in common.
C17_PagesPartitionMatches ==
    /\ \A p \in Procs :
          (Listed(p) /\ resp[p].itemsPerPage >= 1 /\ resp[p].currentPage >= 1) =>
              LET skip == (resp[p].currentPage - 1) * resp[p].itemsPerPage
                  rest == Cardinality(SeenMatches(p)) - skip
                  size == IF rest < 0 THEN 0
                          ELSE IF rest < resp[p].itemsPerPage THEN rest
                          ELSE resp[p].itemsPerPage
              IN  /\ Len(resp[p].data) = size
                  /\ Cardinality(PageKeys(p)) = size
                  /\ PageKeys(p) \subseteq SeenMatches(p)
                  /\ \A i, j \in DOMAIN resp[p].data :
                        i < j => resp[p].data[i].doc.timestamp >= resp[p].data[j].doc.timestamp
    /\ \A p1, p2 \in Procs :
          (SameListing(p1, p2) /\ resp[p1].itemsPerPage >= 1
              /\ resp[p1].currentPage >= 1 /\ resp[p2].currentPage >= 1
              /\ resp[p1].currentPage # resp[p2].currentPage) =>
              PageKeys(p1) \cap PageKeys(p2) = {}

\* C18: a listing request changes neither the report store, the profile
\* store nor the claim store, and two listings with the same arguments that
\* counted and read the same store contents return the same envelope.
C18_ReadOnlyDeterministic ==
    [][/\ \A p \in Procs :
             (Acts(p) /\ req'[p].op = "list") =>
                 /\ reports' = reports
                 /\ users' = users
                 /\ idpClaims' = idpClaims
       /\ \A p1, p2 \in Procs :
             (SameListing(p1, p2)' /\ req'[p1].query = req'[p2].query) =>
                 resp'[p1] = resp'[p2]
    ]_vars

\* s is an integer numeral: an optional sign and digits only
IsNumeral(s) ==
    LET body == IF Len(s) > 0 /\ s[1] \in {"-", "+"} THEN Tail(s) ELSE s
    IN  Len(body) > 0 /\ \A i \in 1..Len(body) : body[i] \in Digit

\* the integer a numeral denotes
NumeralValue(s) ==
    LET neg == s[1] = "-"
        body == IF s[1] \in {"-", "+"} THEN Tail(s) ELSE s
    IN  IF neg THEN 0 - DigitsValue(body, Len(body)) ELSE DigitsValue(body, Len(body))

\* the value the parameter string s stands for, d when absent or non-numeric
Supplied(s, d) == IF IsNumeral(Chars(s)) THEN NumeralValue(Chars(s)) ELSE d

LeadingIntegerOr(s, d) ==
    CASE s = "" -> d
      [] s = "a" -> d
      [] s = "0" -> d
      [] s = "-1" -> 0 - 1
      [] s = "1" -> 1
      [] s = "2" -> 2
      [] s = "1+2" -> 1

C20_NoSelfDemotion ==
    [][\A p \in Procs :
        (pc[p] = "role_update" /\ pc'[p] # pc[p] /\ loc[p].role = "superadmin"
            /\ req'[p].uid = loc[p].uid /\ req'[p].role # "superadmin") =>
            /\ resp'[p].status = 400
            /\ users' = users
            /\ idpClaims' = idpClaims
            /\ \A i \in DOMAIN users :
                  users[i].uid = req'[p].uid => users'[i].role = users[i].role
    ]_vars

\* a superadmin asked to become admin and was refused, role and claim still
\* superadmin
C20_Witness ==
    \E p \in Procs :
        /\ Done(p, "role") /\ resp[p].status = 400
        /\ resp[p].message = "Cannot demote your own account from superadmin role."
        /\ req[p].uid = req[p].tok.uid /\ req[p].role = "admin"
        /\ StoredRole(req[p].uid) = "superadmin"
        /\ idpClaims[req[p].uid] = "superadmin"

\* ==================================================================
\* User deletion
\* ==================================================================
\* the step removes the profile of uid, or its identity-provider account
Removes(uid) ==
    \/ StoredProfiles(uid) # {} /\ StoredProfiles(uid)' = {}
    \/ uid \in idpAccounts /\ uid \notin idpAccounts'

\* C21: no step of a user deletion requested by a caller admitted with role
\* admin removes the profile or the identity-provider account of a user whose
\* stored role is admin or superadmin, and such a request is not answered
\* with success, whatever role updates run beside it.
C21_AdminCannotDeleteAdmins ==
    [][\A p \in Procs, uid \in Uids :
        (pc[p] \in {"deleteUser_find", "deleteUser_idp", "deleteUser_store"}
            /\ pc'[p] # pc[p] /\ loc[p].role = "admin"
            /\ req'[p].uid = uid /\ uid # loc[p].uid
            /\ StoredRole(uid) \in {"admin", "superadmin"}) =>
            /\ ~Removes(uid)
            /\ pc'[p] = "done" => resp'[p].status # 200
    ]_vars

\* a step of DELETE /api/users/:uid in which an admitted admin or superadmin
\* names their own uid
SelfDeleteStep(p) ==
    /\ pc[p] = "deleteUser_find" /\ pc'[p] # pc[p]
    /\ loc[p].role \in {"admin", "superadmin"}
    /\ req'[p].uid = loc[p].uid

\* C22 (as stated): an admin or superadmin who requests the deletion of their
\* own uid is answered 403, and neither their profile nor their
\* identity-provider account is deleted.
C22_SelfDeleteForbidden ==
    [][\A p \in Procs :
        SelfDeleteStep(p) =>
            /\ pc'[p] = "done" /\ resp'[p].status = 403
            /\ users' = users /\ idpAccounts' = idpAccounts
    ]_vars

\* C22 (amended): an admin or superadmin who requests the deletion of their
\* own uid is answered 400 'Cannot delete your own account via this
\* interface.', the request ends there, and neither their profile nor their
\* identity-provider account is deleted.
C22_SelfDeleteRejected ==
    [][\A p \in Procs :
        SelfDeleteStep(p) =>
            /\ pc'[p] = "done"
            /\ resp'[p] = Response(400, "Cannot delete your own account via this interface.")
            /\ users' = users /\ idpAccounts' = idpAccounts
    ]_vars

\* an admin asked for the deletion of their own uid and was refused, profile
\* and account still there
C22_Witness ==
    \E p \in Procs :
        /\ Done(p, "deleteUser") /\ resp[p].status = 400
        /\ "uid" \in DOMAIN req[p] /\ req[p].uid = req[p].tok.uid
        /\ StoredProfiles(req[p].uid) # {}
        /\ req[p].uid \in idpAccounts

\* C23: the identity-provider step of a user deletion leaves the profile
\* store alone, and the store step removes a profile only when the account is
\* gone from the identity provider; when the provider fails with an error
\* other than auth/user-not-found the request ends there with 500, and the
\* profile store, the accounts and the claims are as they were.
C23_ProviderFailureAborts ==
    [][\A p \in Procs :
        /\ (pc[p] = "deleteUser_idp" /\ pc'[p] # pc[p]) =>
              /\ users' = users
              /\ req'[p].firebaseError \notin {"ok", "auth/user-not-found"} =>
                    /\ pc'[p] = "done"
                    /\ resp'[p] = Response(500, "Failed to delete user from Firebase Authentication.")
                    /\ idpAccounts' = idpAccounts
                    /\ idpClaims' = idpClaims
        /\ (pc[p] = "deleteUser_store" /\ users' # users) =>
              req[p].uid \notin idpAccounts
    ]_vars

\* the provider failed while a user with a profile and an account was being
\* deleted: 500, profile and account still there
C23_Witness ==
    \E p \in Procs :
        /\ Done(p, "deleteUser") /\ resp[p].status = 500
        /\ "firebaseError" \in DOMAIN req[p]
        /\ req[p].firebaseError = "auth/internal-error"
        /\ StoredProfiles(req[p].uid) # {}
        /\ req[p].uid \in idpAccounts

\* C24: when the identity provider reports the target of a user deletion
\* missing (auth/user-not-found) the handler goes on to the store step, and
\* that step removes the target's profile, if there is one, and answers 200.
C24_MissingAccountStillDeletes ==
    [][\A p \in Procs :
        /\ (pc[p] = "deleteUser_idp" /\ pc'[p] # pc[p]
                /\ req[p].uid \notin idpAccounts
                /\ req'[p].firebaseError # "auth/internal-error") =>
              /\ req'[p].firebaseError = "auth/user-not-found"
              /\ pc'[p] = "deleteUser_store"
        /\ (pc[p] = "deleteUser_store" /\ pc'[p] # pc[p]
                /\ req[p].firebaseError = "auth/user-not-found"
                /\ StoredProfiles(req[p].uid) # {}) =>
              /\ StoredProfiles(req[p].uid)' = {}
              /\ resp'[p].status = 200
              /\ resp'[p].uid = req[p].uid
    ]_vars

\* a profile whose account was already gone was deleted with success
C24_Witness ==
    \E p \in Procs :
        /\ Done(p, "deleteUser") /\ resp[p].status = 200
        /\ "firebaseError" \in DOMAIN req[p]
        /\ req[p].firebaseError = "auth/user-not-found"
        /\ Len(users) < 4
        /\ StoredProfiles(req[p].uid) = {}

\* ==================================================================
\* Gates
\* ==================================================================
\* the operations behind verifyAdminToken that carry their own name
AdminGatedOps == {"adminDelete", "restore", "purge", "bulk", "role", "status", "deleteUser"}

\* slot p takes up a request for an admin-gated operation with a verified
\* credential
AdminGateStep(p) ==
    /\ pc[p] = "idle" /\ pc'[p] # "idle"
    /\ req'[p].op \in AdminGatedOps
    /\ req'[p].tok.kind = "valid"

\* C25: a request with a verified credential passes the admin gate exactly
\* when the credential's claim carries role admin or superadmin, whatever the
\* profile store holds, or else the store holds a profile for the claim's uid
\* with role admin or superadmin; the handler then sees the role that admitted
\* the request. A request that does not pass ends at the gate with 403:
\* 'profile not found' when the store has no profile for the uid,
\* 'insufficient privileges' when the stored role is another one; nothing is
\* changed.
C25_AdminGateAdmission ==
    [][\A p \in Procs :
        AdminGateStep(p) =>
            LET tok == req'[p].tok
                byClaim == tok.role \in {"admin", "superadmin"}
                byStore == StoredRole(tok.uid) \in {"admin", "superadmin"}
            IN  /\ pc'[p] # "done" <=> (byClaim \/ byStore)
                /\ (pc'[p] # "done" /\ byClaim) => loc'[p] = [uid |-> tok.uid, role |-> tok.role]
                /\ (pc'[p] # "done" /\ ~byClaim) =>
                      loc'[p] = [uid |-> tok.uid, role |-> StoredRole(tok.uid)]
                /\ pc'[p] = "done" =>
                      /\ resp'[p] =
                            IF StoredProfiles(tok.uid) = {}
                            THEN Response(403, "Access denied: User profile not found in database.")
                            ELSE Response(403, "Access denied: Insufficient privileges. Requires admin role.")
                      /\ UNCHANGED storeVars
    ]_vars

\* the gate has admitted a request on a claim of admin whose holder is stored
\* as user
C25_Witness ==
    \E p \in Procs :
        /\ pc[p] \notin {"idle", "done"} /\ req[p].op \in AdminGatedOps
        /\ req[p].tok.role = "admin" /\ StoredRole(req[p].tok.uid) = "user"
        /\ loc[p].role = "admin"

\* C26: a request to a guarded endpoint that carries no bearer token ends at
\* the gate with 401 'No authentication token provided.', one whose token the
\* identity provider rejects ends there with 401 and the message of the
\* error (expired, malformed, or the general one); in each case the handler
\* behind the gate takes no step, and reports, profiles, claims and accounts
\* are as they were.
C26_Unauthenticated ==
    [][\A p \in Procs :
        (pc[p] = "idle" /\ pc'[p] # "idle" /\ "tok" \in DOMAIN req'[p]
            /\ req'[p].tok.kind # "valid") =>
            /\ pc'[p] = "done"
            /\ resp'[p].status = 401
            /\ resp'[p].message =
                  CASE req'[p].tok.kind = "missing" ->
                          "Unauthorized: No authentication token provided."
                    [] req'[p].tok.kind = "expired" ->
                          "Unauthorized: Authentication token expired. Please log in again."
                    [] req'[p].tok.kind = "malformed" ->
                          "Unauthorized: Invalid authentication token."
                    [] OTHER -> "Unauthorized: Invalid or expired token."
            /\ UNCHANGED storeVars
    ]_vars

\* a request to trash an existing report came with an expired token and was
\* answered 401
C26_Witness ==
    \E p \in Procs :
        /\ Done(p, "trash") /\ req[p].tok.kind = "expired"
        /\ resp[p].status = 401
        /\ Len(reports) > 0

\* ==================================================================
\* Profiles
\* ==================================================================
\* C27: every step that adds a profile to the store adds exactly one, at the
\* end, for the uid of a registration body, with status pending and role
\* user, whatever other fields the body carries; the profiles already stored
\* stay as they were.
C27_CreatedPendingUser ==
    [][Len(users') > Len(users) =>
        /\ Len(users') = Len(users) + 1
        /\ SubSeq(users', 1, Len(users)) = users
        /\ users'[Len(users')].status = "pending"
        /\ users'[Len(users')].role = "user"
        /\ \E p \in Procs :
              /\ pc[p] = "register_insert" /\ pc'[p] = "done"
              /\ resp'[p].status = 201
              /\ resp'[p].userProfile = users'[Len(users')]
              /\ users'[Len(users')].uid = req[p].body.uid
    ]_vars

\* a registration whose body asked for status approved and role superadmin
\* was stored as pending user
C27_Witness ==
    \E p \in Procs :
        /\ Done(p, "register") /\ resp[p].status = 201
        /\ "role" \in DOMAIN req[p].body
        /\ req[p].body.role = "superadmin" /\ req[p].body.status = "approved"
        /\ \E i \in DOMAIN users :
              /\ users[i].uid = req[p].body.uid
              /\ users[i].role = "user" /\ users[i].status = "pending"

\* the status stored for uid ("" without a profile)
StoredStatus(uid) ==
    IF StoredProfiles(uid) = {} THEN ""
    ELSE users[CHOOSE i \in StoredProfiles(uid) : TRUE].status

\* C28: every stored profile has a status of pending, approved, rejected and
\* a role of user, admin, superadmin. The status of a profile that is there
\* before and after a step changes only in the update step of a status
\* request for that uid whose caller the gate admitted as admin or
\* superadmin, its role only in the update step of a role request for that
\* uid whose caller was admitted as superadmin. A status request that names
\* the stored status is answered 200 'already set to this value or no changes
\* made' and leaves the profiles as they were.
C28_StatusRoleTransitions ==
    /\ [](\A i \in DOMAIN users :
              /\ users[i].status \in {"pending", "approved", "rejected"}
              /\ users[i].role \in {"user", "admin", "superadmin"})
    /\ [][/\ \A uid \in Uids :
              (StoredProfiles(uid) # {} /\ StoredProfiles(uid)' # {}) =>
                 /\ StoredStatus(uid)' # StoredStatus(uid) =>
                       \E p \in Procs :
                          /\ pc[p] = "status_update" /\ pc'[p] = "done"
                          /\ loc[p].role \in {"admin", "superadmin"}
                          /\ req'[p].uid = uid
                          /\ req'[p].status = StoredStatus(uid)'
                 /\ StoredRole(uid)' # StoredRole(uid) =>
                       \E p \in Procs :
                          /\ pc[p] = "role_update" /\ pc'[p] # pc[p]
                          /\ loc[p].role = "superadmin"
                          /\ req'[p].uid = uid
                          /\ req'[p].role = StoredRole(uid)'
          /\ \A p \in Procs, uid \in Uids :
              (pc[p] = "status_update" /\ pc'[p] # pc[p]
                  /\ loc[p].role \in {"admin", "superadmin"}
                  /\ StoredProfiles(uid) # {}
                  /\ req'[p].uid = uid /\ req'[p].status = StoredStatus(uid)) =>
                  /\ resp'[p] = Response(200, "User status already set to this value or no changes made.")
                  /\ users' = users
       ]_vars

\* an admin has rejected an approved profile (the status changed through the
\* gated update)
C28_Witness ==
    \E p \in Procs :
        /\ Done(p, "status") /\ resp[p].status = 200
        /\ resp[p].message = "User status updated to 'rejected' successfully."
        /\ StoredStatus(req[p].uid) = "rejected"
        /\ StoredRole(req[p].tok.uid) \in {"admin", "superadmin"}

\* witness of the unchanged case: a status request named the stored status
C28_NoChangeReached ==
    \E p \in Procs :
        /\ Done(p, "status")
        /\ resp[p] = Response(200, "User status already set to this value or no changes made.")
        /\ StoredStatus(req[p].uid) = req[p].status

\* ==================================================================
\* Submission and its listing
\* ==================================================================
\* the keys of the reports without deletedAt in the collection as the find of
\* slot p read it
SeenActive(p) == {k \in DOMAIN loc[p].seen : "deletedAt" \notin DOMAIN loc[p].seen[k]}

\* slot p holds a listing of GET /api/userReports without search or filter,
\* with a page size of at least one
PlainListing(p) ==
    /\ Listed(p) /\ req[p].route = "userReports"
    /\ req[p].query.search = "" /\ req[p].query.status = ""
    /\ resp[p].itemsPerPage >= 1

\* C29: a valid submission adds one report under a fresh id, without
\* deletedAt and deletedBy, and leaves the stored reports as they were; every
\* stored report without deletedAt is on the page of a GET /api/userReports
\* without search or filter when the listing has one page, and on one of its
\* two pages, read from the same store, when it has two.
C29_SubmissionListed ==
    /\ [][\A p \in Procs :
            (pc[p] = "idle" /\ pc'[p] = "done" /\ req'[p].op = "submit"
                /\ resp'[p].status = 201) =>
                LET id == req'[p].id
                IN  /\ id \notin DOMAIN reports
                    /\ DOMAIN reports' = DOMAIN reports \cup {id}
                    /\ \A f \in DOMAIN req'[p].body : reports'[id][f] = req'[p].body[f]
                    /\ "deletedAt" \notin DOMAIN reports'[id]
                    /\ "deletedBy" \notin DOMAIN reports'[id]
                    /\ \A k \in DOMAIN reports : reports'[k] = reports[k]
       ]_vars
    /\ [](\A p \in Procs :
            (PlainListing(p) /\ resp[p].currentPage = 1 /\ resp[p].totalPages <= 1
                /\ loc[p].seen = loc[p].counted) =>
                SeenActive(p) \subseteq PageKeys(p))
    /\ [](\A p1, p2 \in Procs :
            (PlainListing(p1) /\ SameListing(p1, p2)
                /\ resp[p1].totalPages = 2
                /\ resp[p1].currentPage = 1 /\ resp[p2].currentPage = 2) =>
                SeenActive(p1) \subseteq PageKeys(p1) \cup PageKeys(p2))

\* C30: a profile fetch for a uid without a profile is answered 404; for a
\* profile whose status is pending or rejected it is answered 403 with a
\* message and without the profile; for a profile of any other status it is
\* answered 200 with the stored profile. The fetch changes no store.
C30_ProfileFetch ==
    [][\A p \in Procs, uid \in Uids :
        (pc[p] = "idle" /\ pc'[p] # "idle" /\ req'[p].op = "getUser"
            /\ req'[p].uid = uid) =>
            /\ pc'[p] = "done"
            /\ UNCHANGED storeVars
            /\ IF StoredProfiles(uid) = {}
               THEN resp'[p].status = 404
               ELSE IF StoredStatus(uid) \in {"pending", "rejected"}
               THEN /\ resp'[p].status = 403
                    /\ DOMAIN resp'[p] = {"status", "message"}
                    /\ resp'[p].message # ""
               ELSE /\ resp'[p].status = 200
                    /\ \E i \in StoredProfiles(uid) : resp'[p].user = users[i]
    ]_vars

\* the fetch of a profile that an administrator rejected was refused
C30_Witness ==
    \E p \in Procs :
        /\ Done(p, "getUser") /\ resp[p].status = 403
        /\ StoredStatus(req[p].uid) = "rejected"

\* ==================================================================
\* Failures
\* ==================================================================
\* C31: a step that ends a request with status 400 leaves the reports, the
\* profiles and the claims of the identity provider as they were.
C31_ValidationPrecedesMutation ==
    [][\A p \in Procs :
        (pc[p] # "done" /\ pc'[p] = "done" /\ resp'[p].status = 400) =>
            /\ reports' = reports
            /\ users' = users
            /\ idpClaims' = idpClaims
    ]_vars

\* a bulk action was refused for a batch without a valid id while the store
\* held a trashed report
C31_Witness ==
    \E p \in Procs :
        /\ Done(p, "bulk")
        /\ resp[p] = Response(400, "No valid IDs found in the request for bulk action.")
        /\ \E i \in DOMAIN reports : "deletedAt" \in DOMAIN reports[i]

\* a store operation of the request in slot p has failed
StoreFailed(p) == "storeError" \in DOMAIN req[p] /\ req[p].storeError

\* C32: a request during which a store operation failed, the profile lookup
\* of the admin gate included, is answered 500.
C32_StoreFailureIs500 ==
    \A p \in Procs : (pc[p] = "done" /\ StoreFailed(p)) => resp[p].status = 500

\* ==================================================================
\* Connection
\* ==================================================================
\* C33: at no time do two MongoClients hold a live connection, and the index
\* creation has run at most once.
C33_SingleFlightConnect ==
    /\ Cardinality(connected) <= 1
    /\ indexRuns <= 1

\* ==================================================================
\* Races on a trashed report
\* ==================================================================
\* C34: when the store operation of an admitted restore or purge runs on a
\* well-formed id, the request succeeds exactly if the report is in the trash
\* at that moment and is told 'not found' (404) otherwise, never 500; a
\* successful restore leaves the report active without deletedAt and
\* deletedBy, a successful purge removes it, an unsuccessful request changes
\* nothing. Of the requests racing on one trashed report only the first to
\* reach the store therefore succeeds.
C34_RestorePurgeRace ==
    [][\A p \in Procs, id \in 1..MaxReports :
        (pc[p] \in {"restore_update", "purge_delete"} /\ pc'[p] = "done"
            /\ loc[p].role \in {"admin", "superadmin"}
            /\ "id" \in DOMAIN req'[p] /\ req'[p].id = id) =>
            IF id \in DOMAIN reports /\ "deletedAt" \in DOMAIN reports[id]
            THEN /\ resp'[p].status = 200
                 /\ \A k \in DOMAIN reports : k # id =>
                       k \in DOMAIN reports' /\ reports'[k] = reports[k]
                 /\ IF req'[p].op = "restore"
                    THEN /\ DOMAIN reports' = DOMAIN reports
                         /\ DOMAIN reports'[id] = DOMAIN reports[id] \ {"deletedAt", "deletedBy"}
                         /\ \A f \in DOMAIN reports'[id] : reports'[id][f] = reports[id][f]
                    ELSE DOMAIN reports' = DOMAIN reports \ {id}
            ELSE /\ resp'[p].status = 404
                 /\ reports' = reports
    ]_vars

\* a restore and a purge met on one trashed report: one was answered 200, the
\* other 404
C34_Witness ==
    \E p1, p2 \in Procs :
        /\ p1 # p2
        /\ Done(p1, "purge") /\ resp[p1].status = 200
        /\ Done(p2, "restore") /\ resp[p2].status = 404
        /\ req[p1].id = req[p2].id
        /\ req[p1].id \notin DOMAIN reports

\* ==================================================================
\* Stale claims
\* ==================================================================
\* C35: a request to an admin-guarded operation whose verified credential
\* carries the claim admin or superadmin is admitted with the claimed role
\* also when the profile store holds another role for the uid, or no profile
\* at all.
C35_StaleClaimAdmitted ==
    [][\A p \in Procs :
        (AdminGateStep(p)
            /\ req'[p].tok.role \in {"admin", "superadmin"}
            /\ StoredRole(req'[p].tok.uid) \notin {"admin", "superadmin"}) =>
            /\ pc'[p] \notin {"idle", "done"}
            /\ loc'[p].uid = req'[p].tok.uid
            /\ loc'[p].role = req'[p].tok.role
    ]_vars

\* u1 was made superadmin and then user again (profile and claim say user);
\* with the token from its time as superadmin it has changed the role of
\* another user
C35_Witness ==
    \E p \in Procs :
        /\ Done(p, "role") /\ resp[p].status = 200
        /\ req[p].tok.uid = "u1" /\ req[p].tok.role = "superadmin"
        /\ req[p].uid # "u1"
        /\ StoredRole("u1") = "user"
        /\ idpClaims["u1"] = "user"

\* ==================================================================
\* Soft-delete fields
\* ==================================================================
\* C36: every stored report has deletedAt exactly if it has deletedBy.
C36_DeletedAtIffDeletedBy ==
    \A i \in DOMAIN reports :
        "deletedAt" \in DOMAIN reports[i] <=> "deletedBy" \in DOMAIN reports[i]

\* a bulk restore has brought a trashed report back with neither field while
\* another report is in the trash with both
C36_Witness ==
    /\ \E p \in Procs :
          /\ Done(p, "bulk") /\ resp[p].status = 200
          /\ req[p].action = "restore" /\ resp[p].count >= 1
          /\ \E i \in DOMAIN reports :
                /\ i \in Range(req[p].ids.items)
                /\ DOMAIN reports[i] \cap {"deletedAt", "deletedBy"} = {}
    /\ \E j \in DOMAIN reports : {"deletedAt", "deletedBy"} \subseteq DOMAIN reports[j]

\* C37: no step of a reporter's DELETE /api/userReports/:id removes or adds a
\* report, and every report keeps all its fields other than deletedAt and
\* deletedBy with their values; reports other than the one named stay as
\* they were.
C37_TrashKeepsRecord ==
    [][\A p \in Procs :
        (Acts(p) /\ req'[p].op = "trash" /\ pc'[p] # "idle") =>
            /\ DOMAIN reports' = DOMAIN reports
            /\ \A k \in DOMAIN reports :
                  /\ DOMAIN reports'[k] \ {"deletedAt", "deletedBy"}
                        = DOMAIN reports[k] \ {"deletedAt", "deletedBy"}
                  /\ \A f \in DOMAIN reports[k] \ {"deletedAt", "deletedBy"} :
                        reports'[k][f] = reports[k][f]
                  /\ ("id" \notin DOMAIN req'[p] \/ k # req'[p].id) => reports'[k] = reports[k]
    ]_vars

\* a reporter has trashed their report: it is still stored, now with the two
\* fields, beside another report
C37_Witness ==
    \E p \in Procs :
        /\ Done(p, "trash")
        /\ resp[p] = Response(200, "User report moved to trash successfully.")
        /\ req[p].id \in DOMAIN reports
        /\ {"deletedAt", "deletedBy", "name", "timestamp"} \subseteq DOMAIN reports[req[p].id]
        /\ Cardinality(DOMAIN reports) = 2

\* ==================================================================
\* The last superadmin
\* ==================================================================
\* C38: the profile store, which starts with a superadmin, holds a profile
\* with role superadmin in every reachable state.
C38_SuperadminRemains ==
    \E i \in DOMAIN users : users[i].role = "superadmin"

\* ==================================================================
\* Count and page of one listing
\* ==================================================================
\* C39: the envelope of a listing with a page size and a page number of at
\* least one holds at most max(0, totalItems - (currentPage - 1) *
\* itemsPerPage) items, whatever writes run between its count and its find.
C39_EnvelopeOneSnapshot ==
    \A p \in Procs :
        (Listed(p) /\ resp[p].itemsPerPage >= 1 /\ resp[p].currentPage >= 1) =>
            LET rest == resp[p].totalItems - (resp[p].currentPage - 1) * resp[p].itemsPerPage
            IN  Len(resp[p].data) <= IF rest < 0 THEN 0 ELSE rest

\* ==================================================================
\* Refused user deletions
\* ==================================================================
\* C40: a user deletion that is answered 400, 403, 404 or 500 has removed
\* nothing: the step that answers it leaves profiles and accounts alone, and
\* the identity provider has not carried out the deletion of the account for
\* that request.
C40_RefusedDeleteDeletesNothing ==
    /\ [](\A p \in Procs :
            (Done(p, "deleteUser") /\ resp[p].status \in {400, 403, 404, 500}) =>
                ("firebaseError" \notin DOMAIN req[p] \/ req[p].firebaseError # "ok"))
    /\ [][\A p \in Procs :
            (pc[p] # "done" /\ pc'[p] = "done" /\ req'[p].op = "deleteUser"
                /\ resp'[p].status \in {400, 403, 404, 500}) =>
                /\ users' = users
                /\ idpAccounts' = idpAccounts
       ]_vars

====
